---- MODULE Spec2Model ----
(***************************************************************************)
(* Calliope: the character store (character_db.py over config.py's YAML    *)
(* helpers), the mention extractor and the consistency checker             *)
(* (consistency.py), the scene generator (scene_generator.py) and the      *)
(* choice of the AI provider (ai_providers.py).                            *)
(*                                                                         *)
(* Text is a sequence of one-character strings, so that str.lower(), the   *)
(* regular expression search and the YAML scalar rules can be computed     *)
(* character by character.                                                 *)
(***************************************************************************)
EXTENDS Integers, Sequences, FiniteSets, TLC

VARIABLES
    insts,      \* the CharacterStore instances (processes) that exist
    clock,      \* the wall clock, in whole seconds (utils.now_iso)
    data,       \* data[s]: instance s's self._data["characters"]
    file,       \* content of .calliope/characters.yaml
    last,       \* the last store call: operation, arguments, outcome
    mpc,        \* extract_mentions: "call" before it ran, "done" after
    mtext,      \* extract_mentions: the text argument
    mnames,     \* extract_mentions: the character_names argument, a list
    mresult,    \* extract_mentions: the returned dict, as its item list
    fs,         \* the text files of the check: path -> exists, text
    reports,    \* the files under .calliope/consistency_reports
    chk,        \* the last run_consistency_check call and its outcome
    sfs,        \* the project's files generate_scene works on: path -> entry
    gen,        \* the last generate_scene call and its outcome
    ctx,        \* build_character_context: its position, argument, result
    prv,        \* provider_from_config and generate: arguments, result
    rr,         \* resolve_project_root: its position, arguments, result
    cfg,        \* the project's YAML files and the last config.py call
    cli,        \* the command layer: the project, the repository, the command
    obj,        \* the objects of a caller and of its store, by reference
    cln         \* the cleanup command: the project's files, the answer given

storeVars == <<insts, clock, data, file, last>>
mentionVars == <<mpc, mtext, mnames, mresult>>
checkVars == <<fs, reports, chk>>
sceneVars == <<sfs, gen, ctx>>
providerVars == <<prv>>
projectVars == <<rr, cfg, cli, obj, cln>>
vars == <<insts, clock, data, file, last, mpc, mtext, mnames, mresult,
          fs, reports, chk, sfs, gen, ctx, prv, rr, cfg, cli, obj,
          cln>>

\* ------------------------------------------------------------------ bounds

MaxRecords == 2     \* records a store holds at most
MaxClock == 1       \* seconds the clock advances at most
MaxConcRecords == 1 \* records a store holds at most when two instances run
MaxTextLen == 3     \* characters of a text handed to extract_mentions
MaxNameLen == 2     \* characters of a name handed to extract_mentions
MaxFiles == 2       \* paths handed to run_consistency_check
MaxRequest == 2     \* names handed to build_character_context
MaxScenes == 2      \* generate_scene calls in a run
MaxDepth == 6       \* directories between the file system root and start
MaxObjects == 10    \* dicts and lists a caller and its store allocate
MaxMutations == 1   \* changes the caller makes to the records it holds
MaxCommands == 2    \* commands run in a project

\* -------------------------------------------------------------------- text

Digits == <<"0", "1", "2", "3", "4", "5", "6", "7", "8", "9">>

IsDigit(c) == \E i \in DOMAIN Digits : Digits[i] = c

UpperCase ==
    <<"A", "B", "C", "D", "E", "F", "G", "H", "I", "J", "K", "L", "M",
      "N", "O", "P", "Q", "R", "S", "T", "U", "V", "W", "X", "Y", "Z">>
LowerCase ==
    <<"a", "b", "c", "d", "e", "f", "g", "h", "i", "j", "k", "l", "m",
      "n", "o", "p", "q", "r", "s", "t", "u", "v", "w", "x", "y", "z">>

LowerOf == [c \in {UpperCase[i] : i \in DOMAIN UpperCase} |->
               LowerCase[CHOOSE i \in DOMAIN UpperCase : UpperCase[i] = c]]

\* str.lower() on one character
Lower(c) == IF c \in DOMAIN LowerOf THEN LowerOf[c] ELSE c

LowerStr(s) == [i \in DOMAIN s |-> Lower(s[i])]

\* utils.now_iso(): the UTC time truncated to the second, as an ISO string.
\* Of "YYYY-MM-DDTHH:MM:SSZ" the model keeps the "T" and the seconds count.
now_iso(c) == <<"T", Digits[c + 1]>>

\* ------------------------------------------------------- python values

\* A scalar value: a str or an int, with its text.
StrVal(t) == [t |-> "str", v |-> t]
IntVal(t) == [t |-> "int", v |-> t]

\* A list of dicts (a record's "relationships"), and None
ListVal(q) == [t |-> "list", v |-> q]
None == [t |-> "none", v |-> <<>>]

\* str(value)
Str(val) == IF val.t = "none" THEN <<"N", "o", "n", "e">> ELSE val.v

\* A dict is the sequence of its <<key, value>> items in insertion order.
DictHas(d, k) == \E i \in DOMAIN d : d[i][1] = k

DictGet(d, k, default) ==
    IF DictHas(d, k) THEN d[CHOOSE i \in DOMAIN d : d[i][1] = k][2] ELSE default

\* d[k] = v : an existing key keeps its position, a new key goes last
DictSet(d, k, v) ==
    IF DictHas(d, k)
    THEN [i \in DOMAIN d |-> IF d[i][1] = k THEN <<k, v>> ELSE d[i]]
    ELSE Append(d, <<k, v>>)

\* (mutant) the key is assigned whether present or not
SetDefaultOverwrites(d, k, v) == DictSet(d, k, v)

\* d.setdefault(k, v)
SetDefault(d, k, v) == IF DictHas(d, k) THEN d ELSE Append(d, <<k, v>>)

\* (mutant) the dict is replaced by the update instead of merged with it
DictUpdateReplaces(d, u) == u

\* d.update(u)
RECURSIVE DictUpdate(_, _)
DictUpdate(d, u) ==
    IF u = <<>> THEN d ELSE DictUpdate(DictSet(d, u[1][1], u[1][2]), Tail(u))

DictKeys(d) == {d[i][1] : i \in DOMAIN d}

\* --------------------------------------------------------------- YAML

\* The implicit type PyYAML resolves a plain (unquoted) scalar to.
Resolve(t) ==
    IF t = <<>> \/ t = <<"null">> THEN "none"
    ELSE IF t \in {<<"true">>, <<"false">>} THEN "bool"
    ELSE IF \A i \in DOMAIN t : IsDigit(t[i]) THEN "int"
    ELSE IF Len(t) = 3 /\ IsDigit(t[1]) /\ t[2] = "." /\ IsDigit(t[3]) THEN "float"
    ELSE IF Len(t) = 2 /\ t[1] = "T" /\ IsDigit(t[2]) THEN "timestamp"
    ELSE "str"

\* yaml.dump of a scalar: a str is written quoted when its plain form would
\* be read back as something else; an int, a float and a bool are written
\* plain, None as null.
\* (mutant) every scalar is written plain
DumpScalarPlain(val) == [quoted |-> FALSE, text |-> val.v]

DumpScalar(val) ==
    [quoted |-> (val.t = "str" /\ Resolve(val.v) # "str"),
     text |-> IF val.t = "none" THEN <<"null">> ELSE val.v]

\* (mutant) a quoted scalar is resolved like a plain one
LoadScalarResolving(tok) ==
    IF Resolve(tok.text) = "none" THEN None
    ELSE [t |-> Resolve(tok.text), v |-> tok.text]

\* yaml.safe_load of a scalar
LoadScalar(tok) ==
    IF tok.quoted THEN StrVal(tok.text)
    ELSE IF Resolve(tok.text) = "none" THEN None
    ELSE [t |-> Resolve(tok.text), v |-> tok.text]

\* yaml.dump / yaml.safe_load of a value: a list of mappings is written
\* item by item, anything else is a scalar
RECURSIVE DumpDict(_)
DumpValue(val) ==
    IF val.t = "list"
    THEN [seq |-> TRUE, items |-> [i \in DOMAIN val.v |-> DumpDict(val.v[i])]]
    ELSE [seq |-> FALSE, items |-> DumpScalar(val)]

DumpDict(d) == [i \in DOMAIN d |-> <<d[i][1], DumpValue(d[i][2])>>]

RECURSIVE LoadDict(_)
LoadValue(node) ==
    IF node.seq
    THEN ListVal([i \in DOMAIN node.items |-> LoadDict(node.items[i])])
    ELSE LoadScalar(node.items)

LoadDict(y) == [i \in DOMAIN y |-> <<y[i][1], LoadValue(y[i][2])>>]

\* config.write_yaml(path, {"characters": chars}): the whole file is rewritten
write_yaml(chars) == [exists |-> TRUE, doc |-> [i \in DOMAIN chars |-> DumpDict(chars[i])]]

\* a YAML file that does not exist
Missing_yaml == [exists |-> FALSE, doc |-> <<>>]

\* config.read_yaml(path): {} when the file is missing
read_yaml(f) ==
    IF ~f.exists THEN <<>> ELSE [i \in DOMAIN f.doc |-> LoadDict(f.doc[i])]

DEFAULT_CHARACTERS == <<>>

\* config.load_characters: a missing file is first created with the default
FileAfterLoad(f) == IF ~f.exists THEN write_yaml(DEFAULT_CHARACTERS) ELSE f
load_characters(f) == read_yaml(FileAfterLoad(f))

\* config.save_characters
save_characters(chars) == write_yaml(chars)

\* ------------------------------------------------------- CharacterStore

NoName == StrVal(<<>>)

\* str(char.get("name", ""))
NameOf(char) == Str(DictGet(char, "name", NoName))

\* (mutant) the names compared as they are written
MatchesCaseSensitive(char, name) == NameOf(char) = name

Matches(char, name) == LowerStr(NameOf(char)) = LowerStr(name)

\* CharacterStore.get: a copy of the first record whose name matches, or None
get(chars, name) ==
    IF \E i \in DOMAIN chars : Matches(chars[i], name)
    THEN [found |-> TRUE,
          value |-> chars[CHOOSE i \in DOMAIN chars :
                            /\ Matches(chars[i], name)
                            /\ \A j \in 1..(i - 1) : ~Matches(chars[j], name)]]
    ELSE [found |-> FALSE, value |-> <<>>]

\* Python truth of get's result: None and the empty dict are false
Truthy(r) == r.found /\ r.value # <<>>

\* (mutant) the new record is inserted first
addFirst(chars, character, ts) ==
    IF Truthy(get(chars, NameOf(character)))
    THEN [status |-> "ValueError", chars |-> chars, saved |-> FALSE, ret |-> <<>>]
    ELSE LET stamped == SetDefault(SetDefault(character, "created_at", StrVal(ts)),
                                   "last_modified", StrVal(ts))
         IN [status |-> "ok", chars |-> <<stamped>> \o chars, saved |-> TRUE,
             ret |-> stamped]

\* CharacterStore.add on the record list chars at time ts: the outcome, the
\* new list, whether save_characters ran, and the returned copy
add(chars, character, ts) ==
    IF Truthy(get(chars, NameOf(character)))
    THEN [status |-> "ValueError", chars |-> chars, saved |-> FALSE, ret |-> <<>>]
    ELSE LET stamped == SetDefault(SetDefault(character, "created_at", StrVal(ts)),
                                   "last_modified", StrVal(ts))
         IN [status |-> "ok", chars |-> Append(chars, stamped), saved |-> TRUE,
             ret |-> stamped]

\* CharacterStore.update: the first matching record is merged in place
update(chars, name, updates, ts) ==
    IF \E i \in DOMAIN chars : Matches(chars[i], name)
    THEN LET index == CHOOSE i \in DOMAIN chars :
                         /\ Matches(chars[i], name)
                         /\ \A j \in 1..(i - 1) : ~Matches(chars[j], name)
             merged == DictSet(DictUpdate(chars[index], updates),
                               "last_modified", StrVal(ts))
         IN [status |-> "ok", chars |-> [chars EXCEPT ![index] = merged],
             saved |-> TRUE, ret |-> merged]
    ELSE [status |-> "ValueError", chars |-> chars, saved |-> FALSE, ret |-> <<>>]

\* CharacterStore.remove: every matching record is filtered out
IsOther(name, char) == ~Matches(char, name)

\* (mutant) the filtered list is stored and saved without the length test
removeUnchecked(chars, name) ==
    LET keep(char) == IsOther(name, char)
    IN [status |-> "ok", chars |-> SelectSeq(chars, keep), saved |-> TRUE, ret |-> <<>>]

remove(chars, name) ==
    LET keep(char) == IsOther(name, char)
        filtered == SelectSeq(chars, keep)
    IN IF Len(filtered) = Len(chars)
       THEN [status |-> "ValueError", chars |-> chars, saved |-> FALSE, ret |-> <<>>]
       ELSE [status |-> "ok", chars |-> filtered, saved |-> TRUE, ret |-> <<>>]

\* ---------------------------------------------------- extract_mentions

\* \w of the re module, over the alphabet of the model
IsWord(c) == c \in {"a", "A", "b", "B", "_"} \/ IsDigit(c)

\* str.splitlines(): the text cut at each line end, a last line end opening
\* no further line.  Pieces(text, cur) lists the lines of cur \o text.
RECURSIVE Pieces(_, _)
Pieces(text, cur) ==
    IF text = <<>> THEN (IF cur = <<>> THEN <<>> ELSE <<cur>>)
    ELSE IF Head(text) = "\n" THEN <<cur>> \o Pieces(Tail(text), <<>>)
    ELSE Pieces(Tail(text), Append(cur, Head(text)))

splitlines(text) == Pieces(text, <<>>)

\* \b at offset p of line (between line[p] and line[p + 1])
WordAt(line, p) == p \in DOMAIN line /\ IsWord(line[p])
Boundary(line, p) == WordAt(line, p) # WordAt(line, p + 1)

\* one pattern character against one character under re.IGNORECASE: the
\* name is put into the pattern as it is, so "." is the wildcard
CharMatch(pc, c) == IF pc = "." THEN c # "\n" ELSE Lower(pc) = Lower(c)

\* (mutant) the pattern is matched anywhere, without the \b anchors
re_search_unanchored(name, line) ==
    \E p \in 0..(Len(line) - Len(name)) :
        \A k \in DOMAIN name : CharMatch(name[k], line[p + k])

\* re.search(rf"\b{name}\b", line, re.IGNORECASE) finds a match
re_search(name, line) ==
    \E p \in 0..(Len(line) - Len(name)) :
        /\ Boundary(line, p)
        /\ \A k \in DOMAIN name : CharMatch(name[k], line[p + k])
        /\ Boundary(line, p + Len(name))

\* the numbers appended to mentions[name]: for each line in turn, one per
\* position of the names list that holds name and matches the line
RECURSIVE Hits(_, _, _, _)
Hits(name, names, lines, idx) ==
    IF idx > Len(lines) THEN <<>>
    ELSE LET here == SelectSeq(names, LAMBDA m : m = name /\ re_search(m, lines[idx]))
         IN [i \in DOMAIN here |-> idx] \o Hits(name, names, lines, idx + 1)

\* the keys of {name: [] for name in character_names}, in insertion order
RECURSIVE Distinct(_)
Distinct(names) ==
    IF names = <<>> THEN <<>>
    ELSE LET front == Distinct(SubSeq(names, 1, Len(names) - 1))
             n == names[Len(names)]
         IN IF \E i \in DOMAIN front : front[i] = n THEN front ELSE Append(front, n)

\* consistency.extract_mentions: the items <<name, line numbers>> of the
\* returned dict
extract_mentions(text, names) ==
    LET lines == splitlines(text)
        keys == Distinct(names)
        all == [i \in DOMAIN keys |-> <<keys[i], Hits(keys[i], names, lines, 1)>>]
    IN SelectSeq(all, LAMBDA item : item[2] # <<>>)

\* ----------------------------------------------- run_consistency_check

\* code point order of the characters, for sorted()
CodeOrder ==
    <<"\n", " ", ".">> \o Digits \o <<"A", "B", "C", "T", "_", "a", "b", "c">>

Ord(c) == CHOOSE i \in DOMAIN CodeOrder : CodeOrder[i] = c

\* s < t on str
RECURSIVE StrLess(_, _)
StrLess(s, t) ==
    IF t = <<>> THEN FALSE
    ELSE IF s = <<>> THEN TRUE
    ELSE IF Head(s) = Head(t) THEN StrLess(Tail(s), Tail(t))
    ELSE Ord(Head(s)) < Ord(Head(t))

\* sorted() of a list of str
RECURSIVE sorted(_)
sorted(q) ==
    IF q = <<>> THEN <<>>
    ELSE LET m == CHOOSE i \in DOMAIN q :
                     /\ \A j \in DOMAIN q : ~StrLess(q[j], q[i])
                     /\ \A j \in 1..(i - 1) : StrLess(q[i], q[j])
         IN <<q[m]>> \o sorted([i \in 1..(Len(q) - 1) |-> IF i < m THEN q[i] ELSE q[i + 1]])

\* CharacterStore.list_names: the names that are not empty, sorted
list_names(chars) ==
    LET named == SelectSeq(chars, LAMBDA char : DictGet(char, "name", NoName).v # <<>>)
    IN sorted([i \in DOMAIN named |-> DictGet(named[i], "name", NoName).v])

IsSpace(c) == c \in {" ", "\n"}

\* str.strip()
RECURSIVE lstrip(_)
lstrip(t) == IF t # <<>> /\ IsSpace(Head(t)) THEN lstrip(Tail(t)) ELSE t

RECURSIVE rstrip(_)
rstrip(t) ==
    IF t # <<>> /\ IsSpace(t[Len(t)]) THEN rstrip(SubSeq(t, 1, Len(t) - 1)) ELSE t

strip(t) == rstrip(lstrip(t))

\* sep.join(parts)
RECURSIVE join(_, _)
join(sep, parts) ==
    IF parts = <<>> THEN <<>>
    ELSE IF Len(parts) = 1 THEN parts[1]
    ELSE parts[1] \o sep \o join(sep, Tail(parts))

\* str(n) of a line number
StrOfNum(n) == <<Digits[n + 1]>>

\* the lines the check adds to mention_report for one file
MentionLines(path, mentions) ==
    IF mentions = <<>> THEN <<>>
    ELSE <<<<path.name, ":">>>>
         \o [i \in DOMAIN mentions |->
                <<"  - ">> \o mentions[i][1] \o <<": lines ">>
                \o join(<<", ">>, [k \in DOMAIN mentions[i][2] |->
                                       StrOfNum(mentions[i][2][k])])]

\* (mutant) a file outside the project root is skipped like a missing one
RECURSIVE ScanSkipping(_, _, _, _, _, _)
ScanSkipping(fsys, names, files, i, snippets, mention_report) ==
    IF i > Len(files)
    THEN [raised |-> FALSE, snippets |-> snippets, mention_report |-> mention_report]
    ELSE LET path == files[i]
         IN IF ~fsys[path.id].exists \/ ~path.under_root
            THEN ScanSkipping(fsys, names, files, i + 1, snippets, mention_report)
            ELSE LET text == fsys[path.id].text
                     mentions == extract_mentions(text, names)
                 IN ScanSkipping(fsys, names, files, i + 1,
                                 snippets \o <<<<"# File: ", path.rel>>, text>>,
                                 mention_report \o MentionLines(path, mentions))

\* the loop over the files from position i on, with the snippets and the
\* mention report gathered so far: a missing path is skipped, a path that
\* file.relative_to(paths.root) refuses raises ValueError
RECURSIVE Scan(_, _, _, _, _, _)
Scan(fsys, names, files, i, snippets, mention_report) ==
    IF i > Len(files)
    THEN [raised |-> FALSE, snippets |-> snippets, mention_report |-> mention_report]
    ELSE LET path == files[i]
         IN IF ~fsys[path.id].exists
            THEN Scan(fsys, names, files, i + 1, snippets, mention_report)
            ELSE IF ~path.under_root
            THEN [raised |-> TRUE, snippets |-> snippets,
                  mention_report |-> mention_report]
            ELSE LET text == fsys[path.id].text
                     mentions == extract_mentions(text, names)
                 IN Scan(fsys, names, files, i + 1,
                         snippets \o <<<<"# File: ", path.rel>>, text>>,
                         mention_report \o MentionLines(path, mentions))

\* (mutant) the check goes on without any valid file
NoValidFilesIgnored(snippets) == FALSE

\* if not snippets
NoValidFiles(snippets) == snippets = <<>>

\* the report's file name: the timestamp without ":" and "-", then ".txt"
ReportName(ts) == SelectSeq(ts, LAMBDA c : c \notin {":", "-"}) \o <<".txt">>

\* (mutant) the provider's output is left out of the report
ReportContentHeaderOnly(mention_report, output) ==
    join(<<"\n">>, <<<<"Calliope Character Consistency Report">>, <<>>>>)

\* the report's text
ReportContent(mention_report, output) ==
    join(<<"\n">>,
         <<<<"Calliope Character Consistency Report">>, <<>>>>
         \o (IF mention_report # <<>>
             THEN <<<<"Mentions:">>>> \o mention_report \o <<<<>>>>
             ELSE <<>>)
         \o <<strip(output), <<>>>>)

Failed(status, calls) ==
    [status |-> status, calls |-> calls, wrote |-> FALSE, path |-> <<>>,
     content |-> <<>>, sent |-> <<>>]

\* (mutant) a failed provider call is made a second time, and the failure
\* text is saved as the report
FinishRetrying(scan, reply, ts) ==
    IF scan.raised \/ NoValidFiles(scan.snippets) THEN Failed("ValueError", 0)
    ELSE [status |-> IF reply.ok THEN "ok" ELSE "ProviderError",
          calls |-> IF reply.ok THEN 1 ELSE 2, wrote |-> TRUE,
          path |-> ReportName(ts),
          content |-> ReportContent(scan.mention_report, reply.text),
          sent |-> join(<<"\n", "\n">>, scan.snippets)]

\* run_consistency_check from the end of its loop on: scan is what the loop
\* gathered, reply what the provider does, ts the time; sent is the text
\* field of the prompt handed to the provider
Finish(scan, reply, ts) ==
    IF scan.raised THEN Failed("ValueError", 0)
    ELSE IF NoValidFiles(scan.snippets) THEN Failed("ValueError", 0)
    ELSE IF ~reply.ok
    THEN [Failed("ProviderError", 1) EXCEPT
             !.sent = join(<<"\n", "\n">>, scan.snippets)]
    ELSE [status |-> "ok", calls |-> 1, wrote |-> TRUE,
          path |-> ReportName(ts),
          content |-> ReportContent(scan.mention_report, reply.text),
          sent |-> join(<<"\n", "\n">>, scan.snippets)]

\* consistency.run_consistency_check on the files fsys and the store's
\* records chars, the provider answering reply, at time ts: the outcome, the
\* number of provider calls, the text sent, and the report written
run_consistency_check(fsys, chars, files, reply, ts) ==
    Finish(Scan(fsys, list_names(chars), files, 1, <<>>, <<>>), reply, ts)

\* ---------------------------------------------------- scene generator

\* Python truth of a field value: None, "", 0 and [] are false
ValueTruthy(val) ==
    CASE val.t = "none" -> FALSE
      [] val.t = "int" -> val.v # <<"0">>
      [] val.t = "bool" -> val.v = <<"true">>
      [] OTHER -> val.v # <<>>

\* the fields of a summary, in the order of the loop, with field.title()
SummaryFields ==
    <<<<"age", "Age">>, <<"physical", "Physical">>,
      <<"personality", "Personality">>, <<"backstory", "Backstory">>,
      <<"role", "Role">>>>

\* the lines of the fields from position i on
RECURSIVE FieldLines(_, _)
FieldLines(character, i) ==
    IF i > Len(SummaryFields) THEN <<>>
    ELSE LET value == DictGet(character, SummaryFields[i][1], None)
         IN (IF ValueTruthy(value)
             THEN <<<<"  ", SummaryFields[i][2], ": ">> \o Str(value)>>
             ELSE <<>>) \o FieldLines(character, i + 1)

\* the line of one relationship
RelationLine(rel) ==
    <<"    - ">> \o Str(DictGet(rel, "character", StrVal(<<"Unknown">>)))
    \o <<" (">> \o Str(DictGet(rel, "type", StrVal(<<"relationship">>)))
    \o <<") ">> \o Str(DictGet(rel, "notes", StrVal(<<>>)))

RelationLines(character) ==
    LET relationships == DictGet(character, "relationships", None)
    IN IF ValueTruthy(relationships)
       THEN <<<<"  Relationships:">>>>
            \o [i \in DOMAIN relationships.v |-> RelationLine(relationships.v[i])]
       ELSE <<>>

\* the summary block of one found character
SummaryBlock(character, name) ==
    join(<<"\n">>,
         <<<<"- ">> \o Str(DictGet(character, "name", StrVal(name)))>>
         \o FieldLines(character, 1) \o RelationLines(character))

\* (mutant) an unknown name gets a block of its own
RECURSIVE ContextBlocksAll(_, _)
ContextBlocksAll(chars, character_names) ==
    IF character_names = <<>> THEN <<>>
    ELSE LET name == Head(character_names)
             character == get(chars, name)
         IN <<SummaryBlock(character.value, name)>>
            \o ContextBlocksAll(chars, Tail(character_names))

\* the loop of build_character_context: the blocks of the names found
RECURSIVE ContextBlocks(_, _)
ContextBlocks(chars, character_names) ==
    IF character_names = <<>> THEN <<>>
    ELSE LET name == Head(character_names)
             character == get(chars, name)
         IN (IF ~Truthy(character) THEN <<>>
             ELSE <<SummaryBlock(character.value, name)>>)
            \o ContextBlocks(chars, Tail(character_names))

NoDetails == <<"No character details available.">>

\* scene_generator.build_character_context
build_character_context(chars, character_names) ==
    LET characters_block == ContextBlocks(chars, character_names)
    IN IF characters_block # <<>> THEN join(<<"\n">>, characters_block)
       ELSE NoDetails

\* A path is the sequence of its components; a file system maps each path to
\* nothing, a file with its text, or a directory.
NoEntry == [kind |-> "none", text |-> <<>>]
File(t) == [kind |-> "file", text |-> t]
Dir == [kind |-> "dir", text |-> <<>>]

Parent(path) == SubSeq(path, 1, Len(path) - 1)

\* Path.mkdir(parents=True, exist_ok=True): every missing directory down to
\* path is created; a file in the way is an error
mkdir(fsys, path) ==
    LET prefixes == {SubSeq(path, 1, k) : k \in 1..Len(path)}
    IN IF \E d \in prefixes : fsys[d].kind = "file"
       THEN [ok |-> FALSE, fs |-> fsys]
       ELSE [ok |-> TRUE,
             fs |-> [q \in DOMAIN fsys |-> IF q \in prefixes THEN Dir ELSE fsys[q]]]

\* open(path, mode): fails on a directory and under a missing directory
CanOpen(fsys, path) ==
    /\ fsys[path].kind # "dir"
    /\ fsys[Parent(path)].kind = "dir"

\* Path.write_text: the file is truncated, or created
write_text(fsys, path, text) ==
    IF CanOpen(fsys, path)
    THEN [ok |-> TRUE, fs |-> [fsys EXCEPT ![path] = File(text)]]
    ELSE [ok |-> FALSE, fs |-> fsys]

\* (mutant) the chapter is opened for writing, not for appending
append_truncating(fsys, path, text) == write_text(fsys, path, text)

\* open(path, "a") and write: the text goes after what the file holds
append(fsys, path, text) ==
    IF CanOpen(fsys, path)
    THEN [ok |-> TRUE, fs |-> [fsys EXCEPT ![path] = File(fsys[path].text \o text)]]
    ELSE [ok |-> FALSE, fs |-> fsys]

ScenesDir == <<<<"scenes">>>>

\* scene_name.replace(" ", "-").lower() + ".md"
scene_filename(scene_name) ==
    LowerStr([i \in DOMAIN scene_name |->
                 IF scene_name[i] = " " THEN "-" ELSE scene_name[i]])
    \o <<".md">>

scene_path(scene_name) == Append(ScenesDir, scene_filename(scene_name))

\* x or default
Or(x, default) == IF x # <<>> THEN x ELSE default

\* PROMPT_TEMPLATE.format(...): the values of the template's fields
ScenePrompt(chars, config, req) ==
    [genre |-> DictGet(config, "genre", <<"romance">>),
     characters_block |-> build_character_context(chars, req.characters_involved),
     premise |-> req.premise,
     tone |-> Or(req.tone, <<"emotional">>),
     pov |-> Or(req.pov, <<"third-person limited">>),
     word_count |-> IF req.word_count # 0 THEN req.word_count ELSE 800,
     instructions |-> Or(req.instructions, <<"None">>)]

\* the label and the copy of the output that go to the chapter
SceneLabel(scene_name) == <<"\n", "\n", "# Scene: ">> \o scene_name \o <<"\n", "\n">>

\* the append step of generate_scene
AppendToChapter(fsys, scene_name, append_to, output) ==
    LET made == mkdir(fsys, Parent(append_to))
    IN IF ~made.ok THEN made
       ELSE append(made.fs, append_to, SceneLabel(scene_name) \o output \o <<"\n">>)

\* (mutant) the scene file is put back as it was when the append step fails
generate_scene_rollback(fsys, chars, config, req, reply) ==
    LET prompt == ScenePrompt(chars, config, req)
        path == scene_path(req.scene_name)
        raised(status) ==
            [status |-> status, calls |-> 1, fs |-> fsys, path |-> <<>>,
             sent |-> prompt]
        written == write_text(fsys, path, reply.text \o <<"\n">>)
        appended == IF req.append_to = <<>> THEN written
                    ELSE AppendToChapter(written.fs, req.scene_name,
                                         req.append_to, reply.text)
    IN IF ~reply.ok THEN raised("ProviderError")
       ELSE IF ~written.ok \/ ~appended.ok THEN raised("OSError")
       ELSE [status |-> "ok", calls |-> 1, fs |-> appended.fs, path |-> path,
             sent |-> prompt]

\* (mutant) a failed provider call is made again and its text written
generate_scene_retrying(fsys, chars, config, req, reply) ==
    LET written == write_text(fsys, scene_path(req.scene_name), reply.text \o <<"\n">>)
    IN [status |-> IF reply.ok THEN "ok" ELSE "ProviderError",
        calls |-> IF reply.ok THEN 1 ELSE 2, fs |-> written.fs,
        path |-> scene_path(req.scene_name),
        sent |-> ScenePrompt(chars, config, req)]

\* scene_generator.generate_scene on the file system fsys, the provider
\* answering reply: the outcome, the number of provider calls, the prompt
\* sent, the file system afterwards and the path returned
generate_scene(fsys, chars, config, req, reply) ==
    LET prompt == ScenePrompt(chars, config, req)
        path == scene_path(req.scene_name)
        raised(status, fsys2) ==
            [status |-> status, calls |-> 1, fs |-> fsys2, path |-> <<>>,
             sent |-> prompt]
    IN IF ~reply.ok THEN raised("ProviderError", fsys)
       ELSE LET output == reply.text
                written == write_text(fsys, path, output \o <<"\n">>)
            IN IF ~written.ok THEN raised("OSError", written.fs)
               ELSE IF req.append_to = <<>>
               THEN [status |-> "ok", calls |-> 1, fs |-> written.fs,
                     path |-> path, sent |-> prompt]
               ELSE LET appended == AppendToChapter(written.fs, req.scene_name,
                                                    req.append_to, output)
                    IN IF ~appended.ok THEN raised("OSError", appended.fs)
                       ELSE [status |-> "ok", calls |-> 1, fs |-> appended.fs,
                             path |-> path, sent |-> prompt]

\* ------------------------------------------------------- AI providers

OpenaiTag == <<"o", "p", "e", "n", "a", "i">>
ClaudeTag == <<"c", "l", "a", "u", "d", "e">>
AnthropicTag == <<"a", "n", "t", "h", "r", "o", "p", "i", "c">>
LocalTag == <<"l", "o", "c", "a", "l">>

\* ProviderSettings built from config["ai"]
ProviderSettings(ai_config) ==
    [provider |-> Str(DictGet(ai_config, "default_provider", StrVal(OpenaiTag))),
     model |-> Str(DictGet(ai_config, "model", StrVal(<<"gpt-4">>))),
     temperature |-> DictGet(ai_config, "temperature",
                             [t |-> "float", v |-> <<"0", ".", "7">>]).v,
     openai_api_key |-> DictGet(ai_config, "openai_api_key", None),
     anthropic_api_key |-> DictGet(ai_config, "anthropic_api_key", None)]

\* the outcome of provider_from_config: the backend class whose constructor
\* ran ("none" when no constructor ran), whether it returned, and the key it
\* handed to its client
Constructed(backend, api_key) ==
    [status |-> "ok", backend |-> backend, api_key |-> api_key]
Refused(backend) ==
    [status |-> "ProviderError", backend |-> backend, api_key |-> None]

\* os.getenv(name)
getenv(env, name) == DictGet(env, name, None)

\* settings.<key> or os.getenv(<NAME>)
ResolveKey(configured, env, name) ==
    IF ValueTruthy(configured) THEN configured ELSE getenv(env, name)

\* OpenAIProvider.__init__ / ClaudeProvider.__init__
RemoteProvider(backend, package, configured, name, env, packages) ==
    IF package \notin packages THEN Refused(backend)
    ELSE LET api_key == ResolveKey(configured, env, name)
         IN IF ~ValueTruthy(api_key) THEN Refused(backend)
            ELSE Constructed(backend, api_key)

OpenAIProvider(settings, env, packages) ==
    RemoteProvider("OpenAIProvider", "openai", settings.openai_api_key,
                   "OPENAI_API_KEY", env, packages)

ClaudeProvider(settings, env, packages) ==
    RemoteProvider("ClaudeProvider", "anthropic", settings.anthropic_api_key,
                   "ANTHROPIC_API_KEY", env, packages)

\* LocalProvider.__init__ asks for no credential
LocalProvider(settings) == Constructed("LocalProvider", None)

\* LocalProvider.generate
LocalGenerate(prompt) == <<"[LOCAL MODEL PLACEHOLDER]", "\n">> \o prompt

\* what generate hands to its caller: the text it returned ("ok") or the
\* exception it raised, and the number of requests it sent to the remote
\* service.  The service's part is api: the client raises ("raises": a
\* transport or an API error), or it returns a response that holds a text
\* ("text"), no choice / no content block at all ("empty"), or a first
\* choice / block without a text ("null": content is None, a block of
\* another type).
Outcome(status, text, calls) == [status |-> status, text |-> text, calls |-> calls]

\* (mutant) the payload is returned as the service sent it
OpenAIGenerateRaw(api) ==
    IF api.kind = "raises" THEN Outcome("ProviderError", <<>>, 1)
    ELSE IF api.kind = "empty" THEN Outcome("ok", <<>>, 1)
    ELSE IF api.kind = "null" THEN Outcome("AttributeError", <<>>, 1)
    ELSE Outcome("ok", api.text, 1)

\* OpenAIProvider.generate: create() is inside the try, the reading of the
\* response after it
OpenAIGenerate(api) ==
    IF api.kind = "raises" THEN Outcome("ProviderError", <<>>, 1)
    ELSE IF api.kind = "empty" THEN Outcome("ok", strip(<<>>), 1)
    ELSE IF api.kind = "null" THEN Outcome("AttributeError", <<>>, 1)
    ELSE Outcome("ok", strip(api.text), 1)

\* ClaudeProvider.generate: message.content[0].text.strip() after the try
ClaudeGenerate(api) ==
    IF api.kind = "raises" THEN Outcome("ProviderError", <<>>, 1)
    ELSE IF api.kind = "empty" THEN Outcome("IndexError", <<>>, 1)
    ELSE IF api.kind = "null" THEN Outcome("AttributeError", <<>>, 1)
    ELSE Outcome("ok", strip(api.text), 1)

\* generate of the provider that was made; the local stub sends nothing
generate(made, prompt, api) ==
    IF made.backend = "OpenAIProvider" THEN OpenAIGenerate(api)
    ELSE IF made.backend = "ClaudeProvider" THEN ClaudeGenerate(api)
    ELSE Outcome("ok", LocalGenerate(prompt), 0)

\* (mutant) the discriminator is compared as written
SelectorAsWritten(provider) == provider

\* settings.provider.lower()
Selector(provider) == LowerStr(provider)

\* (mutant) a configuration that names no usable backend gets the local stub
provider_from_config_lenient(config, env, packages) ==
    LET settings == ProviderSettings(DictGet(config, "ai", <<>>))
        provider == Selector(settings.provider)
    IN IF provider = OpenaiTag THEN OpenAIProvider(settings, env, packages)
       ELSE IF provider \in {ClaudeTag, AnthropicTag}
       THEN ClaudeProvider(settings, env, packages)
       ELSE LocalProvider(settings)

\* ai_providers.provider_from_config, in the environment env with the
\* packages installed
provider_from_config(config, env, packages) ==
    LET settings == ProviderSettings(DictGet(config, "ai", <<>>))
        provider == Selector(settings.provider)
    IN IF provider = OpenaiTag THEN OpenAIProvider(settings, env, packages)
       ELSE IF provider \in {ClaudeTag, AnthropicTag}
       THEN ClaudeProvider(settings, env, packages)
       ELSE IF provider = LocalTag THEN LocalProvider(settings)
       ELSE Refused("none")

\* ------------------------------------------------------- project root

\* for _ in range(5)
Examined == 5

\* (mutant) the walk goes on up to the root of the file system
WalkToRoot(projects, current, left) ==
    IF \E k \in 0..Len(current) : SubSeq(current, 1, k) \in projects
    THEN [root |-> SubSeq(current, 1,
                          CHOOSE k \in 0..Len(current) :
                             /\ SubSeq(current, 1, k) \in projects
                             /\ \A m \in (k + 1)..Len(current) :
                                   SubSeq(current, 1, m) \notin projects),
          found |-> TRUE]
    ELSE [root |-> <<>>, found |-> FALSE]

\* the loop of resolve_project_root with `left` rounds to go: projects are
\* the directories that hold a .calliope entry, and the parent of the root
\* of the file system is that root
RECURSIVE Walk(_, _, _)
Walk(projects, current, left) ==
    IF left = 0 THEN [root |-> <<>>, found |-> FALSE]
    ELSE IF current \in projects THEN [root |-> current, found |-> TRUE]
    ELSE IF Parent(current) = current THEN [root |-> <<>>, found |-> FALSE]
    ELSE Walk(projects, Parent(current), left - 1)

\* config.resolve_project_root
resolve_project_root(projects, start) ==
    LET walked == Walk(projects, start, Examined)
    IN IF walked.found THEN walked ELSE [root |-> start, found |-> FALSE]

\* ------------------------------------------------------------ inputs

Names == {<<"a">>, <<"A">>, <<"b">>}

\* a timestamp a caller's record may already carry: that of second 0
OldStamp == StrVal(now_iso(0))

\* the records handed to add: a name, carrying no timestamp, created_at
\* alone, or both timestamps
Characters ==
    {<<<<"name", StrVal(n)>>>> \o t :
        n \in Names,
        t \in {<<>>,
               <<<<"created_at", OldStamp>>>>,
               <<<<"created_at", OldStamp>>, <<"last_modified", OldStamp>>>>}}

\* the partial records handed to update
Updates ==
    {<<>>,
     <<<<"name", StrVal(<<"A">>)>>>>,
     <<<<"last_modified", OldStamp>>, <<"created_at", OldStamp>>,
       <<"age", IntVal(<<"2">>)>>>>}

\* ------------------------------------------------------------ actions

Call(op, s, name, r) ==
    [op |-> op, inst |-> s, name |-> name, status |-> r.status, saved |-> r.saved]

\* (mutant) every instance sees the new list at once
CommitShared(s, r) ==
    /\ data' = [t \in insts |-> r.chars]
    /\ file' = IF r.saved THEN save_characters(r.chars) ELSE file

Commit(s, r) ==
    /\ data' = [data EXCEPT ![s] = r.chars]
    /\ file' = IF r.saved THEN save_characters(r.chars) ELSE file

\* CharacterStore(paths): a process constructs its store from the file
Construct(s) ==
    /\ data' = [data EXCEPT ![s] = load_characters(file)]
    /\ file' = FileAfterLoad(file)
    /\ last' = [op |-> "construct", inst |-> s, name |-> <<>>, status |-> "ok",
                saved |-> ~file.exists]
    /\ UNCHANGED <<insts, clock, mentionVars, checkVars, sceneVars, providerVars, projectVars>>

\* the records one instance may hold
Capacity == IF Cardinality(insts) = 1 THEN MaxRecords ELSE MaxConcRecords

Add(s, character) ==
    LET r == add(data[s], character, now_iso(clock))
    IN /\ Len(r.chars) <= Capacity
       /\ Commit(s, r)
       /\ last' = Call("add", s, NameOf(character), r)
       /\ UNCHANGED <<insts, clock, mentionVars, checkVars, sceneVars, providerVars, projectVars>>

Update(s, name, updates) ==
    LET r == update(data[s], name, updates, now_iso(clock))
    IN /\ Commit(s, r)
       /\ last' = Call("update", s, name, r)
       /\ UNCHANGED <<insts, clock, mentionVars, checkVars, sceneVars, providerVars, projectVars>>

Remove(s, name) ==
    LET r == remove(data[s], name)
    IN /\ Commit(s, r)
       /\ last' = Call("remove", s, name, r)
       /\ UNCHANGED <<insts, clock, mentionVars, checkVars, sceneVars, providerVars, projectVars>>

\* a second passes
Tick ==
    /\ clock < MaxClock
    /\ clock' = clock + 1
    /\ UNCHANGED <<insts, data, file, last, mentionVars, checkVars, sceneVars,
                 providerVars, projectVars>>

Missing == [exists |-> FALSE, text |-> <<>>]
Present(t) == [exists |-> TRUE, text |-> t]

NoCheck ==
    [status |-> "none", files |-> <<>>, reply |-> <<>>, calls |-> 0,
     wrote |-> FALSE, path |-> <<>>, sent |-> <<>>]

\* run_consistency_check is not in use
CheckIdle ==
    /\ fs = <<Missing, Missing, Missing>>
    /\ reports = {}
    /\ chk = NoCheck

NoScene ==
    [n |-> 0, status |-> "none", scene_name |-> <<>>, append_to |-> <<>>,
     output |-> <<>>, calls |-> 0, path |-> <<>>,
     sent |-> [characters_block |-> <<>>]]

NoContext == [pc |-> "idle", names |-> <<>>, result |-> <<>>]

\* generate_scene and build_character_context are not in use
SceneIdle ==
    /\ sfs = <<>>
    /\ gen = NoScene
    /\ ctx = NoContext

NoProvider ==
    [pc |-> "idle", config |-> <<>>, env |-> <<>>, packages |-> {},
     made |-> [status |-> "none", backend |-> "none", api_key |-> None],
     prompt |-> <<>>, out |-> <<>>, api |-> [kind |-> "none", text |-> <<>>],
     result |-> "none", calls |-> 0]

\* provider_from_config is not in use, and neither are the project-level
\* functions and the command layer
ProjectIdle ==
    /\ rr = [pc |-> "idle"]
    /\ cfg = [pc |-> "idle"]
    /\ cli = [pc |-> "idle"]
    /\ obj = [pc |-> "idle"]
    /\ cln = [pc |-> "idle"]

ProviderIdle == prv = NoProvider /\ ProjectIdle

\* extract_mentions is not in use
MentionsIdle ==
    /\ mpc = "idle"
    /\ mtext = <<>>
    /\ mnames = <<>>
    /\ mresult = <<>>

NoCall ==
    [op |-> "none", inst |-> 1, name |-> <<>>, status |-> "ok", saved |-> FALSE]

\* One store instance on a bootstrapped project (config.bootstrap_project)
Init ==
    /\ insts = {1}
    /\ clock = 0
    /\ file = write_yaml(DEFAULT_CHARACTERS)
    /\ data = [s \in insts |-> load_characters(file)]
    /\ last = NoCall
    /\ MentionsIdle
    /\ CheckIdle
    /\ SceneIdle
    /\ ProviderIdle

Next ==
    \/ \E s \in insts : Construct(s)
    \/ \E s \in insts, c \in Characters : Add(s, c)
    \/ \E s \in insts, n \in Names, u \in Updates : Update(s, n, u)
    \/ \E s \in insts, n \in Names : Remove(s, n)
    \/ Tick

Spec == Init /\ [][Next]_vars

\* Two store instances (two processes) over the same characters file, within
\* one clock second
InitConc ==
    /\ insts = {1, 2}
    /\ clock = 0
    /\ file = write_yaml(DEFAULT_CHARACTERS)
    /\ data = [s \in insts |-> load_characters(file)]
    /\ last = NoCall
    /\ MentionsIdle
    /\ CheckIdle
    /\ SceneIdle
    /\ ProviderIdle

NextConc ==
    \/ \E s \in insts : Construct(s)
    \/ \E s \in insts, c \in Characters : Add(s, c)
    \/ \E s \in insts, n \in Names, u \in Updates : Update(s, n, u)
    \/ \E s \in insts, n \in Names : Remove(s, n)

SpecConc == InitConc /\ [][NextConc]_vars

\* ----------------------------------------- extract_mentions, on its own

TextChars == {"a", "A", "b", " ", "\n"}
NameChars == {"a", "b", "."}

SeqsUpTo(S, n) == UNION {[1..k -> S] : k \in 0..n}

Texts == SeqsUpTo(TextChars, MaxTextLen)

\* the names a store lists: not empty (CharacterStore.list_names)
MentionNames == SeqsUpTo(NameChars, MaxNameLen) \ {<<>>}

\* the lists of names handed over: none, one, or two
NameLists ==
    {<<>>} \cup {<<n>> : n \in MentionNames}
           \cup {<<n, m>> : n \in MentionNames, m \in MentionNames}

StoreIdle ==
    /\ insts = {1}
    /\ clock = 0
    /\ file = write_yaml(DEFAULT_CHARACTERS)
    /\ data = [s \in insts |-> load_characters(file)]
    /\ last = NoCall

InitMentions ==
    /\ StoreIdle
    /\ mpc = "call"
    /\ mtext \in Texts
    /\ mnames \in NameLists
    /\ mresult = <<>>
    /\ CheckIdle
    /\ SceneIdle
    /\ ProviderIdle

ExtractMentions ==
    /\ mpc = "call"
    /\ mresult' = extract_mentions(mtext, mnames)
    /\ mpc' = "done"
    /\ UNCHANGED <<storeVars, mtext, mnames, checkVars, sceneVars, providerVars, projectVars>>

NextMentions == ExtractMentions

SpecMentions == InitMentions /\ [][NextMentions]_vars

\* ------------------------------------------- the consistency checker

\* the paths of the check: two scene files under the project root and one
\* file outside it
Scene1 == [id |-> 1, under_root |-> TRUE, rel |-> "scenes/one.md", name |-> "one.md"]
Scene2 == [id |-> 2, under_root |-> TRUE, rel |-> "scenes/two.md", name |-> "two.md"]
Outside == [id |-> 3, under_root |-> FALSE, rel |-> "", name |-> "out.md"]

CheckPaths == {Scene1, Scene2, Outside}

\* what each path may hold
FileSystems ==
    {<<f1, f2, f3>> :
        f1 \in {Missing, Present(<<"a", "\n", "A", " ", "b">>)},
        f2 \in {Missing, Present(<<"c">>)},
        f3 \in {Missing, Present(<<"b">>)}}

\* the lists of paths handed over: no path twice
FileLists ==
    {q \in UNION {[1..k -> CheckPaths] : k \in 0..MaxFiles} :
        \A i, j \in DOMAIN q : i # j => q[i] # q[j]}

\* what the provider does with a prompt: it raises, or it returns a text
Replies ==
    {[ok |-> FALSE, text |-> <<>>],
     [ok |-> TRUE, text |-> <<"o", "k">>],
     [ok |-> TRUE, text |-> <<" ", "o", "k", "\n">>]}

\* the store of the check: the characters "b" and "a", added at second 0
CheckStore ==
    add(add(<<>>, <<<<"name", StrVal(<<"b">>)>>>>, now_iso(0)).chars,
        <<<<"name", StrVal(<<"a">>)>>>>, now_iso(0)).chars

InitCheck ==
    /\ insts = {1}
    /\ clock = 0
    /\ data = [s \in insts |-> CheckStore]
    /\ file = save_characters(CheckStore)
    /\ last = NoCall
    /\ MentionsIdle
    /\ fs \in FileSystems
    /\ reports = {}
    /\ chk = NoCheck
    /\ SceneIdle
    /\ ProviderIdle

\* the report file is overwritten if there is one of that name
Written(r) ==
    /\ reports' = IF r.wrote
                  THEN {x \in reports : x.path # r.path}
                       \cup {[path |-> r.path, content |-> r.content]}
                  ELSE reports
    /\ UNCHANGED <<storeVars, mentionVars, fs, sceneVars, providerVars, projectVars>>

RunCheck(files, reply) ==
    LET r == run_consistency_check(fs, data[1], files, reply, now_iso(clock))
    IN /\ chk' = [status |-> r.status, files |-> files, reply |-> reply.text,
                  calls |-> r.calls, wrote |-> r.wrote, path |-> r.path,
                  sent |-> r.sent]
       /\ Written(r)

NextCheck ==
    \/ \E files \in FileLists, reply \in Replies : RunCheck(files, reply)
    \/ Tick

SpecCheck == InitCheck /\ [][NextCheck]_vars

\* ------------------------------------------- build_character_context

\* the records of the context: "a" with an age, a trait and a relationship;
\* "B" with fields that are false (0 and "")
Elena ==
    <<<<"name", StrVal(<<"a">>)>>, <<"age", IntVal(<<"2">>)>>,
      <<"personality", StrVal(<<"witty">>)>>,
      <<"relationships",
        ListVal(<<<<<<"character", StrVal(<<"B">>)>>,
                    <<"type", StrVal(<<"friend">>)>>>>>>)>>>>

Bo ==
    <<<<"name", StrVal(<<"B">>)>>, <<"age", IntVal(<<"0">>)>>,
      <<"role", StrVal(<<>>)>>>>

\* the store after the adds of the records of q, at second 0
RECURSIVE StoreOf(_)
StoreOf(q) ==
    IF q = <<>> THEN <<>>
    ELSE add(StoreOf(SubSeq(q, 1, Len(q) - 1)), q[Len(q)], now_iso(0)).chars

ContextStores ==
    {StoreOf(<<>>), StoreOf(<<Elena>>), StoreOf(<<Elena, Bo>>), StoreOf(<<Bo, Elena>>)}

\* the names asked for: stored ones in either letter case, and an unknown one
ContextNames == {<<"a">>, <<"A">>, <<"b">>, <<"x">>}

RequestLists == SeqsUpTo(ContextNames, MaxRequest)

InitContext ==
    /\ insts = {1}
    /\ clock = 0
    /\ \E st \in ContextStores :
          /\ data = [s \in insts |-> st]
          /\ file = save_characters(st)
    /\ last = NoCall
    /\ MentionsIdle
    /\ CheckIdle
    /\ ProviderIdle
    /\ sfs = <<>>
    /\ gen = NoScene
    /\ ctx \in {[pc |-> "call", names |-> q, result |-> <<>>] : q \in RequestLists}

BuildContext ==
    /\ ctx.pc = "call"
    /\ ctx' = [ctx EXCEPT !.pc = "done",
                           !.result = build_character_context(data[1], ctx.names)]
    /\ UNCHANGED <<storeVars, mentionVars, checkVars, sfs, gen, providerVars, projectVars>>

NextContext == BuildContext

SpecContext == InitContext /\ [][NextContext]_vars

\* ----------------------------------------------------- generate_scene

AChapters == <<<<"chapters">>>>
ANotes == <<<<"notes">>>>
AChapter == <<<<"chapters">>, <<"ch1.md">>>>
ANote == <<<<"notes">>, <<"ch.md">>>>

\* the scene names: the first two give the same file name
SceneNames == {<<"a", " ", "b">>, <<"A", "-", "b">>, <<"c">>}

ScenePaths ==
    {<<>>, ScenesDir, AChapters, ANotes, AChapter, ANote}
    \cup {scene_path(n) : n \in SceneNames}

\* the project before the calls: the directories of the layout, the notes
\* directory not yet made, a scene and a chapter that may exist
SceneFileSystems ==
    {[q \in ScenePaths |->
         CASE q \in {<<>>, ScenesDir, AChapters} -> Dir
           [] q = scene_path(<<"a", " ", "b">>) -> old
           [] q = AChapter -> chapter
           [] OTHER -> NoEntry] :
        old \in {NoEntry, File(<<"old scene">>)},
        chapter \in {NoEntry, File(<<"prior">>)}}

\* append_to: none, a chapter, a file under a directory not yet made, a
\* directory, and the scene file of the first two scene names
AppendTargets == {<<>>, AChapter, ANote, AChapters, scene_path(<<"a", " ", "b">>)}

\* the other arguments: those of the test, or all of them empty
SceneDetails(scene_name) ==
    IF scene_name = <<"c">>
    THEN [premise |-> <<>>, characters_involved |-> <<<<"x">>>>, tone |-> <<>>,
          pov |-> <<>>, word_count |-> 0, instructions |-> <<>>]
    ELSE [premise |-> <<"A chance encounter.">>,
          characters_involved |-> <<<<"A">>>>, tone |-> <<"light">>,
          pov |-> <<"a">>, word_count |-> 500,
          instructions |-> <<"Keep dialogue snappy.">>]

SceneRequest(scene_name, append_to) ==
    LET d == SceneDetails(scene_name)
    IN [scene_name |-> scene_name, append_to |-> append_to,
        premise |-> d.premise, characters_involved |-> d.characters_involved,
        tone |-> d.tone, pov |-> d.pov, word_count |-> d.word_count,
        instructions |-> d.instructions]

\* what the provider does with the prompt: it raises, or it returns a text
SceneReplies ==
    {[ok |-> FALSE, text |-> <<>>],
     [ok |-> TRUE, text |-> <<"Generated scene content.">>]}

\* config["project"]
SceneConfig == <<<<"genre", <<"romance">>>>>>

SceneStore == StoreOf(<<Elena, Bo>>)

InitScene ==
    /\ insts = {1}
    /\ clock = 0
    /\ data = [s \in insts |-> SceneStore]
    /\ file = save_characters(SceneStore)
    /\ last = NoCall
    /\ MentionsIdle
    /\ CheckIdle
    /\ ProviderIdle
    /\ sfs \in SceneFileSystems
    /\ gen = NoScene
    /\ ctx = NoContext

GenerateScene(scene_name, append_to, reply) ==
    LET r == generate_scene(sfs, data[1], SceneConfig,
                            SceneRequest(scene_name, append_to), reply)
    IN /\ gen.n < MaxScenes
       /\ sfs' = r.fs
       /\ gen' = [n |-> gen.n + 1, status |-> r.status,
                   scene_name |-> scene_name, append_to |-> append_to,
                   output |-> reply.text, calls |-> r.calls, path |-> r.path,
                   sent |-> [characters_block |-> r.sent.characters_block]]
       /\ UNCHANGED <<storeVars, mentionVars, checkVars, ctx, providerVars, projectVars>>

NextScene ==
    \E scene_name \in SceneNames, append_to \in AppendTargets,
       reply \in SceneReplies : GenerateScene(scene_name, append_to, reply)

SpecScene == InitScene /\ [][NextScene]_vars

\* ------------------------------------------------ provider_from_config

OpenaiPlaceholder == StrVal(<<"${OPENAI_API_KEY}">>)
AnthropicPlaceholder == StrVal(<<"${ANTHROPIC_API_KEY}">>)

\* config.DEFAULT_CONFIG
DEFAULT_CONFIG ==
    <<<<"project",
        <<<<"name", StrVal(<<"My Novel">>)>>,
          <<"genre", StrVal(<<"romance">>)>>,
          <<"target_word_count", IntVal(<<"8", "0", "0", "0", "0">>)>>>>>>,
      <<"ai",
        <<<<"default_provider", StrVal(OpenaiTag)>>,
          <<"openai_api_key", OpenaiPlaceholder>>,
          <<"anthropic_api_key", AnthropicPlaceholder>>,
          <<"model", StrVal(<<"gpt-4">>)>>,
          <<"temperature", [t |-> "float", v |-> <<"0", ".", "7">>]>>>>>>,
      <<"git",
        <<<<"auto_commit", [t |-> "bool", v |-> <<"true">>]>>,
          <<"commit_prefix", StrVal(<<"prefix">>)>>>>>>>>

Absent == [t |-> "absent", v |-> <<>>]

\* the values of default_provider: the names of the backends in lower, upper
\* and mixed case, other texts, the YAML null, and no entry at all
Discriminators ==
    {Absent, None}
    \cup {StrVal(d) : d \in
             {OpenaiTag, <<"O", "p", "e", "n", "A", "I">>,
              ClaudeTag, <<"C", "L", "A", "U", "D", "E">>,
              AnthropicTag, <<"A", "n", "t", "h", "r", "o", "p", "i", "c">>,
              LocalTag, <<"L", "o", "c", "a", "l">>,
              <<"g", "p", "t">>, <<>>, <<" ">> \o LocalTag}}

\* what the configuration holds for a key: no entry, the empty text, the
\* placeholder of the default configuration, or a key
OpenaiKeys == {Absent, StrVal(<<>>), OpenaiPlaceholder, StrVal(<<"sk-config">>)}
AnthropicKeys == {Absent, StrVal(<<>>), AnthropicPlaceholder, StrVal(<<"ant-config">>)}

Entry(k, val) == IF val = Absent THEN <<>> ELSE <<<<k, val>>>>

AiConfig(d, ko, ka) ==
    Entry("default_provider", d) \o Entry("openai_api_key", ko)
    \o Entry("anthropic_api_key", ka)

\* the configurations: the default one, one without an "ai" section, and
\* the "ai" sections made of the values above
Configs ==
    {DEFAULT_CONFIG, <<>>}
    \cup {<<<<"ai", AiConfig(d, ko, ka)>>>> :
             d \in Discriminators, ko \in OpenaiKeys, ka \in AnthropicKeys}

\* os.environ: each key set or not
Envs ==
    {Entry("OPENAI_API_KEY", o) \o Entry("ANTHROPIC_API_KEY", a) :
        o \in {Absent, StrVal(<<"sk-env">>)},
        a \in {Absent, StrVal(<<"ant-env">>)}}

\* the backend packages that can be imported
PackageSets == {{"openai", "anthropic"}, {}}

\* the prompts handed to generate
Prompts == {<<>>, <<"h", "i">>, <<" ", "h", "i", "\n">>}

InitProvider ==
    /\ StoreIdle
    /\ MentionsIdle
    /\ CheckIdle
    /\ SceneIdle
    /\ prv \in {[NoProvider EXCEPT !.pc = "call", !.config = c, !.env = v,
                                    !.packages = p] :
                   c \in Configs, v \in Envs, p \in PackageSets}
    /\ ProjectIdle

ProviderFromConfig ==
    /\ prv.pc = "call"
    /\ prv' = [prv EXCEPT !.pc = "made",
                           !.made = provider_from_config(prv.config, prv.env,
                                                         prv.packages)]
    /\ UNCHANGED <<storeVars, mentionVars, checkVars, sceneVars, projectVars>>

\* what the remote service may do with a request, and the texts a response
\* holds
ApiOutcomes ==
    {[kind |-> k, text |-> <<>>] : k \in {"raises", "empty", "null"}}
    \cup {[kind |-> "text", text |-> t] :
             t \in {<<"o", "k">>, <<" ", "o", "k", "\n">>, <<"\n", " ">>}}

\* generate on the provider that was made; the local stub has no remote
\* service, so one outcome stands for it
Generate(prompt, api) ==
    /\ prv.pc = "made"
    /\ prv.made.status = "ok"
    /\ prv.made.backend = "LocalProvider" => api.kind = "raises"
    /\ LET r == generate(prv.made, prompt, api)
       IN prv' = [prv EXCEPT !.pc = "generated", !.prompt = prompt,
                              !.api = api, !.out = r.text,
                              !.result = r.status, !.calls = r.calls]
    /\ UNCHANGED <<storeVars, mentionVars, checkVars, sceneVars, projectVars>>

NextProvider ==
    \/ ProviderFromConfig
    \/ \E prompt \in Prompts, api \in ApiOutcomes : Generate(prompt, api)

SpecProvider == InitProvider /\ [][NextProvider]_vars

\* ------------------------------------- resolve_project_root, on its own

\* the directory d levels below the root of the file system
Below(d) == [i \in 1..d |-> <<"d", i>>]

InitRoot ==
    /\ StoreIdle
    /\ MentionsIdle
    /\ CheckIdle
    /\ SceneIdle
    /\ prv = NoProvider
    /\ rr \in {[pc |-> "call", start |-> Below(d), projects |-> {Below(k) : k \in ks},
                 result |-> [root |-> <<>>, found |-> FALSE]] :
                   d \in 0..MaxDepth, ks \in SUBSET (0..MaxDepth)}
    /\ cfg = [pc |-> "idle"]
    /\ cli = [pc |-> "idle"]
    /\ obj = [pc |-> "idle"]
    /\ cln = [pc |-> "idle"]

ResolveProjectRoot ==
    /\ rr.pc = "call"
    /\ rr' = [rr EXCEPT !.pc = "done",
                         !.result = resolve_project_root(rr.projects, rr.start)]
    /\ UNCHANGED <<storeVars, mentionVars, checkVars, sceneVars, providerVars,
                   cfg, cli, obj, cln>>

NextRoot == ResolveProjectRoot

SpecRoot == InitRoot /\ [][NextRoot]_vars

\* ------------------------------------------- the project's YAML files

DEFAULT_METADATA ==
    <<<<"project_version", StrVal(<<"0.1.0">>)>>,
      <<"word_count", IntVal(<<"0">>)>>,
      <<"created_at", None>>,
      <<"last_modified", None>>>>

\* yaml.dump / yaml.safe_load of a configuration: a mapping of sections,
\* each a mapping of scalars
DumpConfig(config) == [i \in DOMAIN config |-> <<config[i][1], DumpDict(config[i][2])>>]
LoadConfigDoc(doc) == [i \in DOMAIN doc |-> <<doc[i][1], LoadDict(doc[i][2])>>]

\* config.save_config: write_yaml(paths.config_file, config)
save_config(config) == [exists |-> TRUE, doc |-> DumpConfig(config)]

\* config.load_config: the file after the call and the mapping returned
load_config(f) ==
    LET g == IF ~f.exists THEN save_config(DEFAULT_CONFIG) ELSE f
    IN [file |-> g, ret |-> LoadConfigDoc(g.doc)]

\* config.bootstrap_project on the three files
bootstrap_project(files) ==
    [config |-> save_config(DEFAULT_CONFIG),
     characters |-> write_yaml(DEFAULT_CHARACTERS),
     metadata |-> [exists |-> TRUE, doc |-> DumpDict(DEFAULT_METADATA)]]

\* the scalars of a configuration: texts, among them texts that read like a
\* number, a truth value, null or nothing, and numbers, truth values, None
ConfigScalars ==
    {StrVal(<<"gpt-4">>), StrVal(<<"8", "0">>), StrVal(<<"0", ".", "7">>),
     StrVal(<<"true">>), StrVal(<<"null">>), StrVal(<<>>),
     IntVal(<<"8", "0">>), [t |-> "float", v |-> <<"0", ".", "7">>],
     [t |-> "bool", v |-> <<"true">>], [t |-> "bool", v |-> <<"false">>], None}

\* the configurations handed to save_config: the default one, the empty
\* mapping, an empty section, and sections of one or two entries
UserConfigs ==
    {DEFAULT_CONFIG, <<>>, <<<<"ai", <<>>>>>>}
    \cup {<<<<"ai", <<<<"model", x>>>>>>>> : x \in ConfigScalars}
    \cup {<<<<"git", <<<<"auto_commit", x>>>>>>, <<"ai", <<<<"model", y>>, <<"temperature", x>>>>>>>> :
             x \in ConfigScalars, y \in {StrVal(<<"gpt-4">>), None}}

\* what the three files hold before the calls: nothing, or what a project
\* in use holds
ProjectFiles ==
    {[config |-> c, characters |-> ch, metadata |-> m] :
        c \in {Missing_yaml} \cup {save_config(u) :
                  u \in {DEFAULT_CONFIG, <<<<"ai", <<<<"model", StrVal(<<"8", "0">>)>>>>>>>>}},
        ch \in {Missing_yaml, write_yaml(DEFAULT_CHARACTERS),
                 write_yaml(<<<<<<"name", StrVal(<<"a">>)>>>>>>)},
        m \in {Missing_yaml,
                [exists |-> TRUE,
                 doc |-> DumpDict(DictSet(DEFAULT_METADATA, "word_count",
                                          IntVal(<<"8", "0">>)))]}}

InitConfig ==
    /\ StoreIdle
    /\ MentionsIdle
    /\ CheckIdle
    /\ SceneIdle
    /\ prv = NoProvider
    /\ rr = [pc |-> "idle"]
    /\ cfg \in {[pc |-> "ready", files |-> f, op |-> "none", arg |-> <<>>,
                  ret |-> <<>>] : f \in ProjectFiles}
    /\ cli = [pc |-> "idle"]
    /\ obj = [pc |-> "idle"]
    /\ cln = [pc |-> "idle"]

ConfigIdle ==
    UNCHANGED <<storeVars, mentionVars, checkVars, sceneVars, providerVars,
                rr, cli, obj, cln>>

SaveConfig(config) ==
    /\ cfg.pc = "ready"
    /\ cfg' = [cfg EXCEPT !.files.config = save_config(config),
                           !.op = "save_config", !.arg = config, !.ret = <<>>]
    /\ ConfigIdle

LoadConfig ==
    /\ cfg.pc = "ready"
    /\ LET r == load_config(cfg.files.config)
       IN cfg' = [cfg EXCEPT !.files.config = r.file, !.op = "load_config",
                              !.arg = <<>>, !.ret = r.ret]
    /\ ConfigIdle

BootstrapProject ==
    /\ cfg.pc = "ready"
    /\ cfg' = [cfg EXCEPT !.files = bootstrap_project(cfg.files),
                           !.op = "bootstrap_project", !.arg = <<>>, !.ret = <<>>]
    /\ ConfigIdle

NextConfig ==
    \/ \E config \in UserConfigs : SaveConfig(config)
    \/ LoadConfig
    \/ BootstrapProject

SpecConfig == InitConfig /\ [][NextConfig]_vars

\* ------------------------------- the store's records, by reference

\* A Python object lives at an address of the heap: a dict (its items, a
\* nested list being held by reference) or a list (its elements).
Ref(a) == [t |-> "ref", v |-> a]
DictObj(d) == [kind |-> "dict", d |-> d]
ListObj(items) == [kind |-> "list", d |-> items]

\* the items of a dict with every nested list copied to a fresh address
RECURSIVE CopyItems(_, _)
CopyItems(heap, d) ==
    IF d = <<>> THEN [heap |-> heap, d |-> <<>>]
    ELSE LET rest == CopyItems(heap, Tail(d))
             item == Head(d)
         IN IF item[2].t = "ref"
            THEN [heap |-> Append(rest.heap, rest.heap[item[2].v]),
                  d |-> <<<<item[1], Ref(Len(rest.heap) + 1)>>>> \o rest.d]
            ELSE [heap |-> rest.heap, d |-> <<item>> \o rest.d]

\* (mutant) copy.copy: the new dict holds the nested lists of the old one
shallowcopy(heap, a) == [heap |-> Append(heap, heap[a]), addr |-> Len(heap) + 1]

\* copy.deepcopy of the dict at address a: the heap after it, and the
\* address of the copy
deepcopy(heap, a) ==
    LET c == CopyItems(heap, heap[a].d)
    IN [heap |-> Append(c.heap, DictObj(c.d)), addr |-> Len(c.heap) + 1]

\* self._data["characters"] as the list of its dicts
Records(heap, store) == [i \in DOMAIN store |-> heap[store[i]].d]

\* a dict with its nested lists written out: what yaml.dump is handed
Written_out(heap, d) ==
    [i \in DOMAIN d |->
        IF d[i][2].t = "ref" THEN <<d[i][1], ListVal(heap[d[i][2].v].d)>> ELSE d[i]]

StoreValue(heap, store) ==
    [i \in DOMAIN store |-> Written_out(heap, heap[store[i]].d)]

\* CharacterStore.get by reference: the heap after the call and the address
\* returned (0 for None)
get_ref(heap, store, name) ==
    IF get(Records(heap, store), name).found
    THEN deepcopy(heap, store[CHOOSE i \in DOMAIN store :
                                 /\ Matches(heap[store[i]].d, name)
                                 /\ \A j \in 1..(i - 1) :
                                       ~Matches(heap[store[j]].d, name)])
    ELSE [heap |-> heap, addr |-> 0]

\* CharacterStore.add by reference: the argument is copied, the copy is
\* stamped and appended, and a copy of it is returned
add_ref(heap, store, a, ts) ==
    LET r == add(Records(heap, store), heap[a].d, ts)
    IN IF r.status # "ok"
       THEN [status |-> r.status, heap |-> heap, store |-> store, addr |-> 0]
       ELSE LET character == deepcopy(heap, a)
                stamped == add(Records(heap, store),
                               character.heap[character.addr].d, ts).ret
                kept == [character.heap EXCEPT ![character.addr] = DictObj(stamped)]
                ret == deepcopy(kept, character.addr)
            IN [status |-> "ok", heap |-> ret.heap,
                store |-> Append(store, character.addr), addr |-> ret.addr]

\* CharacterStore.update by reference: a copy of the record takes the items
\* of updates as they are (merged.update(updates)) and replaces the record;
\* a copy of it is returned
update_ref(heap, store, name, u, ts) ==
    LET r == update(Records(heap, store), name, heap[u].d, ts)
    IN IF r.status # "ok"
       THEN [status |-> r.status, heap |-> heap, store |-> store, addr |-> 0]
       ELSE LET index == CHOOSE i \in DOMAIN store :
                            /\ Matches(heap[store[i]].d, name)
                            /\ \A j \in 1..(i - 1) :
                                  ~Matches(heap[store[j]].d, name)
                merged == deepcopy(heap, store[index])
                items == update(<<merged.heap[merged.addr].d>>, name, heap[u].d, ts).ret
                kept == [merged.heap EXCEPT ![merged.addr] = DictObj(items)]
                ret == deepcopy(kept, merged.addr)
            IN [status |-> "ok", heap |-> ret.heap,
                store |-> [store EXCEPT ![index] = merged.addr],
                addr |-> ret.addr]

\* ------------------------------------------ a caller and its store

InitCopies ==
    /\ StoreIdle
    /\ MentionsIdle
    /\ CheckIdle
    /\ SceneIdle
    /\ prv = NoProvider
    /\ rr = [pc |-> "idle"]
    /\ cfg = [pc |-> "idle"]
    /\ cli = [pc |-> "idle"]
    /\ obj = [pc |-> "ready", heap |-> <<>>, store |-> <<>>, saved |-> <<>>,
              made |-> {}, returned |-> {}, added |-> {}, updated |-> {},
              mutations |-> 0, last |-> [op |-> "none", addr |-> 0]]
    /\ cln = [pc |-> "idle"]

CopiesIdle ==
    UNCHANGED <<storeVars, mentionVars, checkVars, sceneVars, providerVars,
                rr, cfg, cli, cln>>

Held == obj.made \cup obj.returned

\* the caller builds its record: {"name": name, "personality": [trait]}
Make(name) ==
    /\ obj.made = {}
    /\ Len(obj.heap) + 2 <= MaxObjects
    /\ obj' = [obj EXCEPT
                 !.heap = obj.heap \o
                          <<ListObj(<<<<"x">>>>),
                            DictObj(<<<<"name", StrVal(name)>>,
                                      <<"personality", Ref(Len(obj.heap) + 1)>>>>)>>,
                 !.made = @ \cup {Len(obj.heap) + 2},
                 !.last = [op |-> "make", addr |-> Len(obj.heap) + 2]]
    /\ CopiesIdle

\* store.get(name)
StoreGet(name) ==
    LET r == get_ref(obj.heap, obj.store, name)
    IN /\ Len(r.heap) <= MaxObjects
       /\ obj' = [obj EXCEPT !.heap = r.heap,
                              !.returned = @ \cup ({r.addr} \ {0}),
                              !.last = [op |-> "get", addr |-> r.addr]]
       /\ CopiesIdle

\* store.add(character), character being a record the caller holds
StoreAdd(a) ==
    LET r == add_ref(obj.heap, obj.store, a, now_iso(clock))
    IN /\ Len(r.heap) <= MaxObjects
       /\ obj' = [obj EXCEPT !.heap = r.heap, !.store = r.store,
                              !.saved = IF r.status = "ok"
                                        THEN StoreValue(r.heap, r.store) ELSE @,
                              !.returned = @ \cup ({r.addr} \ {0}),
                              !.added = @ \cup {a},
                              !.last = [op |-> "add", addr |-> a]]
       /\ CopiesIdle

\* store.update(name, updates), updates being a record the caller holds
StoreUpdate(name, u) ==
    LET r == update_ref(obj.heap, obj.store, name, u, now_iso(clock))
    IN /\ Len(r.heap) <= MaxObjects
       /\ obj' = [obj EXCEPT !.heap = r.heap, !.store = r.store,
                              !.saved = IF r.status = "ok"
                                        THEN StoreValue(r.heap, r.store) ELSE @,
                              !.returned = @ \cup ({r.addr} \ {0}),
                              !.updated = @ \cup {u},
                              !.last = [op |-> "update", addr |-> u]]
       /\ CopiesIdle

\* the caller assigns a field of a record it holds: record["role"] = "z"
MutateField(a) ==
    /\ obj.mutations < MaxMutations
    /\ obj' = [obj EXCEPT !.heap[a] = DictObj(DictSet(@.d, "role", StrVal(<<"z">>))),
                           !.mutations = @ + 1,
                           !.last = [op |-> "mutate", addr |-> a]]
    /\ CopiesIdle

\* the caller changes a nested list of a record it holds:
\* record["personality"].append("z")
MutateNested(a) ==
    LET l == DictGet(obj.heap[a].d, "personality", Ref(0)).v
    IN /\ l # 0
       /\ obj.mutations < MaxMutations
       /\ obj' = [obj EXCEPT !.heap[l] = ListObj(Append(@.d, <<"z">>)),
                              !.mutations = @ + 1,
                              !.last = [op |-> "mutate", addr |-> a]]
       /\ CopiesIdle

NextCopies ==
    \/ \E name \in {<<"a">>} : Make(name)
    \/ \E name \in {<<"A">>, <<"b">>} : StoreGet(name)
    \/ \E a \in Held : StoreAdd(a)
    \/ \E name \in {<<"A">>}, u \in Held : StoreUpdate(name, u)
    \/ \E a \in Held : MutateField(a)
    \/ \E a \in Held : MutateNested(a)

SpecCopies == InitCopies /\ [][NextCopies]_vars

\* ------------------------------------------------- the cleanup command

ExportsDir == <<<<"exports">>>>
ConsistencyDir == <<<<".calliope">>, <<"consistency_reports">>>>

\* config.ensure_project_structure: the directories are made one after the
\* other, from position i of the list on
RECURSIVE ensure_project_structure(_, _)
ensure_project_structure(fsys, i) ==
    LET directories == <<<<<<".calliope">>>>, ConsistencyDir, <<<<"chapters">>>>,
                         ScenesDir, <<<<"notes">>>>, ExportsDir>>
    IN IF i > Len(directories) THEN [ok |-> TRUE, fs |-> fsys]
       ELSE LET made == mkdir(fsys, directories[i])
            IN IF ~made.ok THEN made ELSE ensure_project_structure(made.fs, i + 1)

\* Path.iterdir: the entries directly inside a directory
iterdir(fsys, directory) ==
    {q \in DOMAIN fsys : /\ q # <<>>
                         /\ Parent(q) = directory
                         /\ fsys[q].kind # "none"}

\* (mutant) the files are deleted without the question being asked
cleanup_unasked(fsys, confirm) ==
    LET to_remove == {target \in {ExportsDir, ConsistencyDir} :
                         fsys[target].kind = "dir" /\ iterdir(fsys, target) # {}}
    IN [status |-> "ok",
        fs |-> [q \in DOMAIN fsys |->
                   IF q # <<>> /\ Parent(q) \in to_remove /\ fsys[q].kind = "file"
                   THEN NoEntry ELSE fsys[q]]]

\* cli.cleanup, the user answering confirm to the question if it is asked
cleanup(fsys, confirm) ==
    LET context == ensure_project_structure(fsys, 1)
        to_remove == {target \in {ExportsDir, ConsistencyDir} :
                         /\ context.fs[target].kind # "none"
                         /\ iterdir(context.fs, target) # {}}
    IN IF ~context.ok THEN [status |-> "FileExistsError", fs |-> context.fs]
       ELSE IF to_remove = {} THEN [status |-> "nothing", fs |-> context.fs]
       ELSE IF ~confirm THEN [status |-> "aborted", fs |-> context.fs]
       ELSE [status |-> "ok",
             fs |-> [q \in DOMAIN context.fs |->
                        IF /\ q # <<>>
                           /\ Parent(q) \in to_remove
                           /\ context.fs[q].kind = "file"
                        THEN NoEntry ELSE context.fs[q]]]

\* the paths of the project the command is run in
CleanupPaths ==
    {<<>>, <<<<".calliope">>>>, <<<<"chapters">>>>, AChapter, ScenesDir,
     <<<<"notes">>>>, ExportsDir, ConsistencyDir}
    \cup {Append(d, <<n>>) : d \in {ExportsDir, ConsistencyDir}, n \in {"f", "sub"}}
    \cup {d \o <<<<"sub">>, <<"x">>>> : d \in {ExportsDir, ConsistencyDir}}

\* what a target directory holds: it is missing, or it is there with or
\* without a file in it and a directory in it, that one with or without a
\* file; the exports path may also be a file
WithTarget(fsys, d, e) ==
    [q \in DOMAIN fsys |->
        IF q = d THEN e.top
        ELSE IF q = Append(d, <<"f">>) THEN e.f
        ELSE IF q = Append(d, <<"sub">>) THEN e.sub
        ELSE IF q = d \o <<<<"sub">>, <<"x">>>> THEN e.x
        ELSE fsys[q]]

TargetStates ==
    {[top |-> NoEntry, f |-> NoEntry, sub |-> NoEntry, x |-> NoEntry]}
    \cup {[top |-> Dir, f |-> f, sub |-> sub, x |-> x] :
             f \in {NoEntry, File(<<"report">>)}, sub \in {NoEntry, Dir},
             x \in {NoEntry, File(<<"kept">>)}}

CleanupTrees ==
    LET base == [q \in CleanupPaths |->
                    IF q \in {<<>>, <<<<".calliope">>>>, <<<<"chapters">>>>} THEN Dir
                    ELSE IF q = AChapter THEN File(<<"prior">>)
                    ELSE NoEntry]
    IN {WithTarget(WithTarget(base, ExportsDir, e), ConsistencyDir, r) :
           e \in {t \in TargetStates : t.sub = NoEntry => t.x = NoEntry}
                  \cup {[top |-> File(<<"book">>), f |-> NoEntry, sub |-> NoEntry,
                          x |-> NoEntry]},
           r \in {t \in TargetStates : t.sub = NoEntry => t.x = NoEntry}}

InitCleanup ==
    /\ StoreIdle
    /\ MentionsIdle
    /\ CheckIdle
    /\ SceneIdle
    /\ prv = NoProvider
    /\ rr = [pc |-> "idle"]
    /\ cfg = [pc |-> "idle"]
    /\ cli = [pc |-> "idle"]
    /\ obj = [pc |-> "idle"]
    /\ cln \in {[pc |-> "ready", fs |-> t, confirm |-> FALSE, status |-> "none"] :
                  t \in CleanupTrees}

Cleanup(confirm) ==
    /\ cln.pc = "ready"
    /\ LET r == cleanup(cln.fs, confirm)
       IN cln' = [pc |-> "done", fs |-> r.fs, confirm |-> confirm,
                  status |-> r.status]
    /\ UNCHANGED <<storeVars, mentionVars, checkVars, sceneVars, providerVars,
                   rr, cfg, cli, obj>>

NextCleanup == \E confirm \in BOOLEAN : Cleanup(confirm)

SpecCleanup == InitCleanup /\ [][NextCleanup]_vars

\* ------------------------------------------------------ the command layer

\* what git sees of a project p: the files under scenes/, chapters/ and
\* notes/, and, unless .gitignore lists .calliope/, the character file and
\* the reports.  (The templates and the configuration are tracked too; no
\* command below writes them.)
WorkTree(p) ==
    [files |-> {<<q, p.sfs[q].text>> :
                   q \in {x \in DOMAIN p.sfs : p.sfs[x].kind = "file"}},
     local |-> IF p.ignore THEN <<>> ELSE <<p.file, p.reports>>]

\* a work tree with no file to track
NoTree == [files |-> {}, local |-> <<>>]

NoRepo == [exists |-> FALSE, commits |-> <<>>, head |-> NoTree, calls |-> 0]

\* git_ops.init_repository: the first commit is made if there is a file
init_repository(tree) ==
    [exists |-> TRUE,
     commits |-> IF tree # NoTree THEN <<<<"Initial commit">>>> ELSE <<>>,
     head |-> tree, calls |-> 0]

\* git_ops.ensure_repo
ensure_repo(repo, tree) == IF repo.exists THEN repo ELSE init_repository(tree)

\* git_ops.commit with no paths: everything is added, and a commit is made
\* if the index differs from HEAD; calls counts the calls of the wrapper
commit(repo, tree, message) ==
    IF tree # repo.head
    THEN [repo EXCEPT !.commits = Append(@, message), !.head = tree,
                      !.calls = @ + 1]
    ELSE [repo EXCEPT !.calls = @ + 1]

\* config.get("git", {}).get("auto_commit", True)
auto_commit(config) ==
    ValueTruthy(DictGet(DictGet(config, "git", <<>>), "auto_commit",
                        [t |-> "bool", v |-> <<"true">>]))

\* cli._autocommit in the project p: the repository afterwards
autocommit(p, message) ==
    IF auto_commit(p.config)
    THEN LET repo == ensure_repo(p.repo, WorkTree(p))
             commit_prefix == Str(DictGet(DictGet(p.config, "git", <<>>),
                                          "commit_prefix", StrVal(<<>>)))
         IN commit(repo, WorkTree(p), strip(commit_prefix \o <<" ">> \o message))
    ELSE p.repo

\* how a command leaves the project p
Exit(p, status) ==
    [status |-> status, file |-> p.file, sfs |-> p.sfs, reports |-> p.reports,
     repo |-> p.repo]

\* the answers to the prompts of `character add`: every default accepted
Prompted(name) ==
    <<<<"name", StrVal(name)>>, <<"age", StrVal(<<>>)>>,
      <<"physical", StrVal(<<>>)>>, <<"personality", ListVal(<<>>)>>,
      <<"backstory", StrVal(<<>>)>>, <<"role", StrVal(<<>>)>>>>

\* cli.character_add
character_add(p, name, ts) ==
    LET r == add(load_characters(p.file), Prompted(name), ts)
    IN IF r.status # "ok" THEN Exit(p, "ClickException")
       ELSE LET q == [p EXCEPT !.file = save_characters(r.chars)]
            IN Exit([q EXCEPT !.repo = autocommit(q, <<"Add character: ">> \o name)],
                    "ok")

\* the loop of character_edit over "age", "physical", "backstory", "role":
\* the defaults are accepted but for the role
RECURSIVE Edited(_, _, _)
Edited(character, fields, role) ==
    IF fields = <<>> THEN character
    ELSE LET field == fields[1]
             current == DictGet(character, field, StrVal(<<>>))
             new_value == IF field = "role" THEN StrVal(role)
                          ELSE IF ValueTruthy(current) THEN current
                          ELSE StrVal(<<>>)
         IN Edited(DictSet(character, field, new_value), Tail(fields), role)

\* cli.character_edit
character_edit(p, name, role, ts) ==
    LET chars == load_characters(p.file)
        character == get(chars, name)
    IN IF ~Truthy(character) THEN Exit(p, "ClickException")
       ELSE LET changed == DictSet(Edited(character.value,
                                          <<"age", "physical", "backstory", "role">>,
                                          role),
                                   "personality", ListVal(<<>>))
                r == update(chars, name, changed, ts)
            IN IF r.status # "ok" THEN Exit(p, r.status)
               ELSE LET q == [p EXCEPT !.file = save_characters(r.chars)]
                    IN Exit([q EXCEPT !.repo = autocommit(q, <<"Update character: ">>
                                                             \o name)],
                            "ok")

\* os.environ and the importable packages of the commands
CliEnv == <<<<"OPENAI_API_KEY", StrVal(<<"sk-env">>)>>>>
CliPackages == {"openai", "anthropic"}

\* (mutant) the commit is made in a `finally`
scene_generate_finally(p, scene_name, append_to, reply) ==
    IF provider_from_config(p.config, CliEnv, CliPackages).status # "ok"
    THEN Exit(p, "ClickException")
    ELSE LET r == generate_scene(p.sfs, load_characters(p.file), SceneConfig,
                                 SceneRequest(scene_name, append_to), reply)
             q == [p EXCEPT !.sfs = r.fs]
         IN Exit([q EXCEPT !.repo = autocommit(q, <<"Generate scene: ">>
                                                  \o scene_name)],
                 r.status)

\* cli.scene_generate: an exception of generate_scene goes through
scene_generate(p, scene_name, append_to, reply) ==
    IF provider_from_config(p.config, CliEnv, CliPackages).status # "ok"
    THEN Exit(p, "ClickException")
    ELSE LET r == generate_scene(p.sfs, load_characters(p.file), SceneConfig,
                                 SceneRequest(scene_name, append_to), reply)
             q == [p EXCEPT !.sfs = r.fs]
         IN IF r.status # "ok" THEN Exit(q, r.status)
            ELSE Exit([q EXCEPT !.repo = autocommit(q, <<"Generate scene: ">>
                                                       \o scene_name)],
                      "ok")

\* what load_template finds: no such template, or its data
NoTemplate == [found |-> FALSE, data |-> <<>>]
CharacterTemplate == [found |-> TRUE, data |-> <<<<"role", StrVal(<<"lead">>)>>>>]
SceneTemplate ==
    [found |-> TRUE, data |-> [premise |-> <<"p">>, beats |-> <<<<"b">>>>]]

\* templates.apply_character_template
apply_character_template(chars, template_data, ts) ==
    IF ~ValueTruthy(DictGet(template_data, "name", None))
    THEN [status |-> "TemplateError", chars |-> chars]
    ELSE LET r == add(chars, template_data, ts)
         IN [status |-> r.status, chars |-> r.chars]

\* the text template_use writes for a scene
SceneTemplateText(scene_name, template_data) ==
    LET beats == template_data.beats
        content_lines ==
            <<<<"# ">> \o scene_name, <<>>, template_data.premise>>
            \o (IF beats # <<>>
                THEN <<<<>>, <<"## Story Beats">>>>
                     \o [i \in DOMAIN beats |-> <<"- ">> \o beats[i]]
                ELSE <<>>)
    IN strip(join(<<"\n">>, content_lines)) \o <<"\n">>

\* cli.template_use: name answers the prompt for the character's name or
\* for the scene's file name
template_use(p, category, template, name, ts) ==
    IF ~template.found THEN Exit(p, "ClickException")
    ELSE IF category = "character"
    THEN LET r == apply_character_template(
                      load_characters(p.file),
                      DictSet(template.data, "name", StrVal(name)), ts)
         IN IF r.status = "TemplateError" THEN Exit(p, "ClickException")
            ELSE IF r.status # "ok" THEN Exit(p, r.status)
            ELSE LET q == [p EXCEPT !.file = save_characters(r.chars)]
                 IN Exit([q EXCEPT !.repo = autocommit(q, <<"Add character: ">>
                                                          \o name)],
                         "ok")
    ELSE LET written == write_text(p.sfs, scene_path(name),
                                   SceneTemplateText(name, template.data))
             q == [p EXCEPT !.sfs = written.fs]
         IN IF ~written.ok THEN Exit(q, "OSError")
            ELSE Exit([q EXCEPT !.repo = autocommit(q, <<"Add scene template: ">>
                                                       \o name)],
                      "ok")

\* cli.check on the files given
check(p, files, reply, ts) ==
    IF provider_from_config(p.config, CliEnv, CliPackages).status # "ok"
    THEN Exit(p, "ClickException")
    ELSE IF files = <<>> THEN Exit(p, "ClickException")
    ELSE LET r == run_consistency_check(p.fsys, load_characters(p.file), files,
                                        reply, ts)
         IN Exit([p EXCEPT !.reports =
                      IF r.wrote
                      THEN {x \in p.reports : x.path # r.path}
                           \cup {[path |-> r.path, content |-> r.content]}
                      ELSE p.reports],
                 r.status)

\* ---------------------------------------------- the commands, in a project

\* the project the next command runs in
Project ==
    [file |-> file, sfs |-> sfs, reports |-> reports, fsys |-> fs,
     repo |-> cli.repo, ignore |-> cli.ignore, config |-> cli.config]

\* the configurations of the commands: the default one, one that turns the
\* automatic commit off, and an empty one
CliConfigs ==
    {DEFAULT_CONFIG,
     <<<<"ai", <<<<"default_provider", StrVal(LocalTag)>>>>>>,
       <<"git", <<<<"auto_commit", [t |-> "bool", v |-> <<"false">>]>>>>>>>>,
     <<>>}

\* the names given to the character commands, and the scenes asked for
CliNames == {<<"a">>, <<"A">>}
CliScenes == {<<"a", " ", "b">>}
CliAppendTargets == {<<>>, AChapter, AChapters}

\* a project after `calliope init`: the directories made, an empty character
\* file, a scene to check, and a repository that may have been removed
InitCli ==
    /\ StoreIdle
    /\ MentionsIdle
    /\ fs = <<Present(<<"a", "\n", "A", " ", "b">>), Missing, Missing>>
    /\ reports = {}
    /\ chk = NoCheck
    /\ sfs \in SceneFileSystems
    /\ gen = NoScene
    /\ ctx = NoContext
    /\ prv = NoProvider
    /\ rr = [pc |-> "idle"]
    /\ cfg = [pc |-> "idle"]
    /\ obj = [pc |-> "idle"]
    /\ cln = [pc |-> "idle"]
    /\ \E ignore \in BOOLEAN, config \in CliConfigs, made \in BOOLEAN :
          LET p == [file |-> file, sfs |-> sfs, reports |-> reports,
                    ignore |-> ignore]
          IN cli = [pc |-> "ready", n |-> 0, ignore |-> ignore,
                    config |-> config,
                    repo |-> IF made THEN init_repository(WorkTree(p)) ELSE NoRepo,
                    last |-> [cmd |-> "none", status |-> "none"]]

\* the command cmd has run and left the project as r says
Ran(cmd, r) ==
    /\ cli.pc = "ready"
    /\ cli.n < MaxCommands
    /\ file' = r.file
    /\ data' = [s \in insts |-> load_characters(r.file)]
    /\ sfs' = r.sfs
    /\ reports' = r.reports
    /\ cli' = [cli EXCEPT !.n = @ + 1, !.repo = r.repo,
                          !.last = [cmd |-> cmd, status |-> r.status]]
    /\ UNCHANGED <<insts, clock, last, mentionVars, fs, chk, gen, ctx,
                   providerVars, rr, cfg, obj, cln>>

CharacterAdd(name) ==
    Ran("character add", character_add(Project, name, now_iso(clock)))

CharacterEdit(name, role) ==
    Ran("character edit", character_edit(Project, name, role, now_iso(clock)))

SceneGenerate(scene_name, append_to, reply) ==
    Ran("generate scene", scene_generate(Project, scene_name, append_to, reply))

TemplateUse(category, template, name) ==
    Ran("template use", template_use(Project, category, template, name,
                                     now_iso(clock)))

Check(files, reply) ==
    Ran("check", check(Project, files, reply, now_iso(clock)))

NextCli ==
    \/ \E name \in CliNames : CharacterAdd(name)
    \/ \E name \in CliNames, role \in {<<>>, <<"lead">>} : CharacterEdit(name, role)
    \/ \E scene_name \in CliScenes, append_to \in CliAppendTargets,
          reply \in SceneReplies : SceneGenerate(scene_name, append_to, reply)
    \/ \E name \in CliNames, template \in {NoTemplate, CharacterTemplate} :
          TemplateUse("character", template, name)
    \/ \E name \in CliScenes, template \in {NoTemplate, SceneTemplate} :
          TemplateUse("scene", template, name)
    \/ \E files \in {<<>>, <<Scene1>>}, reply \in SceneReplies : Check(files, reply)

SpecCli == InitCli /\ [][NextCli]_vars

\* ------------------------------------------------------------ claims

Mutating == {"add", "update", "remove"}

\* two names equal when compared case-insensitively
SameName(n1, n2) == LowerStr(n1) = LowerStr(n2)

Stored(chars, name) == \E i \in DOMAIN chars : SameName(NameOf(chars[i]), name)

Succeeded == last.op \in Mutating /\ last.status = "ok"

\* the step is the call add(c), update(n, u), remove(n) by instance s
IsAdd(s, c) ==
    last'.op = "add" /\ last'.inst = s /\ last'.name = NameOf(c) /\ Add(s, c)
IsUpdate(s, n, u) ==
    last'.op = "update" /\ last'.inst = s /\ last'.name = n /\ Update(s, n, u)
IsRemove(s, n) ==
    last'.op = "remove" /\ last'.inst = s /\ last'.name = n /\ Remove(s, n)

\* C1: add of a record whose name equals a stored record's name in any letter
\* case fails with ValueError and leaves the memory list and the file as
\* they were.
C1_DuplicateAddFails ==
    [][\A s \in insts, c \in Characters :
         (IsAdd(s, c) /\ Stored(data[s], NameOf(c)))
            => /\ last'.status = "ValueError"
               /\ ~last'.saved
               /\ data' = data
               /\ file' = file]_vars

\* a failed add whose name differs from the stored one in letter case only
C1_Witness ==
    /\ last.op = "add"
    /\ last.status = "ValueError"
    /\ \E i \in DOMAIN data[last.inst] :
          /\ SameName(NameOf(data[last.inst][i]), last.name)
          /\ NameOf(data[last.inst][i]) # last.name

\* C2: no two stored records have names equal case-insensitively.
C2_UniqueNames ==
    \A s \in insts : \A i, j \in DOMAIN data[s] :
        i # j => ~SameName(NameOf(data[s][i]), NameOf(data[s][j]))

\* C3: when a mutating call has returned successfully the file holds exactly
\* the memory list: a store constructed on it lists the same records in the
\* same order.
C3_PersistedBeforeReturn ==
    Succeeded => /\ last.saved
                 /\ file.exists
                 /\ load_characters(file) = data[last.inst]

C3_Witness ==
    /\ last.op = "update"
    /\ last.status = "ok"
    /\ Len(data[last.inst]) = 2
    /\ clock > 0

Stamps == {"created_at", "last_modified"}

Field(d, k) == DictGet(d, k, NoName)

\* C4: after add(r) of a record whose name is not yet stored, get with the
\* name in any letter case returns r's fields with r's values plus the two
\* timestamps, each stamped with the current time only when r lacks it.
C4_AddThenGet ==
    [][\A s \in insts, c \in Characters :
         (IsAdd(s, c) /\ ~Stored(data[s], NameOf(c)))
            => \A n \in Names :
                 SameName(n, NameOf(c)) =>
                    LET g == get(data'[s], n)
                    IN /\ g.found
                       /\ DictKeys(g.value) = DictKeys(c) \cup Stamps
                       /\ \A k \in DictKeys(c) : Field(g.value, k) = Field(c, k)
                       /\ \A k \in Stamps \ DictKeys(c) :
                             Field(g.value, k) = StrVal(now_iso(clock))]_vars

\* an add at second 1 of a record that carried created_at alone
C4_Witness ==
    /\ last.op = "add"
    /\ last.status = "ok"
    /\ clock = 1
    /\ LET g == get(data[last.inst], last.name)
       IN /\ g.found
          /\ Field(g.value, "created_at") = OldStamp
          /\ Field(g.value, "last_modified") = StrVal(now_iso(1))

\* the position update(name, ...) acts on: the first match
Target(chars, name) ==
    CHOOSE i \in DOMAIN chars :
        /\ SameName(NameOf(chars[i]), name)
        /\ \A j \in 1..(i - 1) : ~SameName(NameOf(chars[j]), name)

\* update(name, partial) on the list old giving the list new, at time ts:
\* fields of partial outside skip take partial's values, the other fields
\* keep theirs, last_modified is ts, the other records are as they were
ShallowMerge(old, new, name, partial, ts, skip) ==
    LET i == Target(old, name)
    IN /\ Len(new) = Len(old)
       /\ \A j \in DOMAIN old : j # i => new[j] = old[j]
       /\ DictKeys(new[i]) = DictKeys(old[i]) \cup DictKeys(partial) \cup {"last_modified"}
       /\ \A k \in DictKeys(partial) \ skip : Field(new[i], k) = Field(partial, k)
       /\ \A k \in DictKeys(old[i]) \ (DictKeys(partial) \cup {"last_modified"}) :
             Field(new[i], k) = Field(old[i], k)
       /\ Field(new[i], "last_modified") = StrVal(ts)

\* C5 as stated: every field present in partial takes partial's value.
C5_Original ==
    [][\A s \in insts, n \in Names, u \in Updates :
         (IsUpdate(s, n, u) /\ Stored(data[s], n))
            => ShallowMerge(data[s], data'[s], n, u, now_iso(clock), {})]_vars

\* C5 amended: every field of partial other than last_modified takes
\* partial's value, every field absent from partial keeps its value,
\* last_modified is set to the current time whatever partial holds for it,
\* and every other record is unchanged.
C5_ShallowMerge ==
    [][\A s \in insts, n \in Names, u \in Updates :
         (IsUpdate(s, n, u) /\ Stored(data[s], n))
            => /\ last'.status = "ok"
               /\ ShallowMerge(data[s], data'[s], n, u, now_iso(clock),
                               {"last_modified"})]_vars

\* an update at second 1 that added age beside another, untouched, record
C5_Witness ==
    /\ last.op = "update"
    /\ last.status = "ok"
    /\ clock = 1
    /\ Len(data[last.inst]) = 2
    /\ \E i \in DOMAIN data[last.inst] :
          /\ DictHas(data[last.inst][i], "age")
          /\ Field(data[last.inst][i], "last_modified") = StrVal(now_iso(1))
          /\ Field(data[last.inst][i], "created_at") = OldStamp

\* C6: update and remove of a name no stored record matches fail with
\* ValueError, write nothing and leave the memory list and the file as
\* they were.
C6_NotFoundChangesNothing ==
    [][\A s \in insts, n \in Names :
         ~Stored(data[s], n) =>
            /\ \A u \in Updates :
                 IsUpdate(s, n, u) =>
                    /\ last'.status = "ValueError"
                    /\ ~last'.saved
                    /\ data' = data
                    /\ file' = file
            /\ IsRemove(s, n) =>
                    /\ last'.status = "ValueError"
                    /\ ~last'.saved
                    /\ data' = data
                    /\ file' = file]_vars

\* a failed remove on a store that holds a record
C6_Witness ==
    /\ last.op = "remove"
    /\ last.status = "ValueError"
    /\ data[last.inst] # <<>>
    /\ ~Stored(data[last.inst], last.name)

\* new is old with some records left out, the others in their order
InOrder(new, old) ==
    \E f \in [DOMAIN new -> DOMAIN old] :
        /\ \A i \in DOMAIN new : new[i] = old[f[i]]
        /\ \A i, j \in DOMAIN new : i < j => f[i] < f[j]

MutationBy(s) ==
    \/ \E c \in Characters : IsAdd(s, c)
    \/ \E n \in Names, u \in Updates : IsUpdate(s, n, u)
    \/ \E n \in Names : IsRemove(s, n)

\* C8: each instance reads the file at construction only; a successful
\* mutation by one instance leaves the file holding exactly that instance's
\* list and leaves the other instance's list as it was, so what the other
\* instance had written since is lost.
C8_LastWriterWins ==
    [][\A s \in insts :
         (last'.status = "ok" /\ MutationBy(s)) =>
            /\ load_characters(file') = data'[s]
            /\ \A t \in insts \ {s} : data'[t] = data[t]]_vars

\* instance 2 wrote last, and a record instance 1 holds is not in the file
C8_Witness ==
    /\ last.op = "add"
    /\ last.inst = 2
    /\ last.status = "ok"
    /\ \E i \in DOMAIN data[1] : ~Stored(load_characters(file), NameOf(data[1][i]))

\* name occurs in line as a whole word, in any letter case: literally, with
\* no word character next to it on either side
OccursAsWord(name, line) ==
    \E p \in 0..(Len(line) - Len(name)) :
        /\ \A k \in DOMAIN name : Lower(name[k]) = Lower(line[p + k])
        /\ ~WordAt(line, p)
        /\ ~WordAt(line, p + Len(name) + 1)

LinesWith(name, text) ==
    {i \in DOMAIN splitlines(text) : OccursAsWord(name, splitlines(text)[i])}

StrictlyIncreasing(q) == \A i, j \in DOMAIN q : i < j => q[i] < q[j]

\* C9: the keys of the result are exactly the names that occur in some line
\* as a case-insensitive whole word, and each maps to the strictly
\* increasing sequence of the 1-based numbers of those lines.
C9_MentionsExact ==
    mpc = "done" =>
        /\ {mresult[i][1] : i \in DOMAIN mresult}
              = {mnames[j] : j \in {j \in DOMAIN mnames : LinesWith(mnames[j], mtext) # {}}}
        /\ \A i \in DOMAIN mresult :
              /\ StrictlyIncreasing(mresult[i][2])
              /\ {mresult[i][2][k] : k \in DOMAIN mresult[i][2]}
                    = LinesWith(mresult[i][1], mtext)

\* C9 for the names made of word characters, each listed once
PlainNames ==
    /\ \A j \in DOMAIN mnames : \A k \in DOMAIN mnames[j] : IsWord(mnames[j][k])
    /\ \A i, j \in DOMAIN mnames : i # j => mnames[i] # mnames[j]

C9_MentionsOfPlainNames == PlainNames => C9_MentionsExact

\* a plain name found in two lines
C9_PlainWitness ==
    /\ mpc = "done"
    /\ PlainNames
    /\ \E i \in DOMAIN mresult : Len(mresult[i][2]) = 2

\* the step is the call run_consistency_check(files) answered by reply
IsCheck(files, reply) ==
    chk'.files = files /\ chk'.reply = reply.text /\ RunCheck(files, reply)

NoneExists(files) == \A i \in DOMAIN files : ~fs[files[i].id].exists

\* C10: run_consistency_check on paths none of which exists fails with
\* ValueError, calls the provider not once and writes no report.
C10_NoExistingFile ==
    [][\A files \in FileLists :
         NoneExists(files) =>
            \A reply \in Replies :
               IsCheck(files, reply) =>
                  /\ chk'.status = "ValueError"
                  /\ chk'.calls = 0
                  /\ ~chk'.wrote
                  /\ reports' = reports]_vars

\* a failed check on two missing paths, after an earlier report was written
C10_Witness ==
    /\ chk.status = "ValueError"
    /\ Len(chk.files) = 2
    /\ \A i \in DOMAIN chk.files : ~fs[chk.files[i].id].exists
    /\ reports # {}

\* the labeled text of every existing file of the list, in the list's order
Exists(files, i) == fs[files[i].id].exists

RECURSIVE Labeled(_, _)
Labeled(files, i) ==
    IF i > Len(files) THEN <<>>
    ELSE (IF Exists(files, i)
          THEN <<<<"# File: ", files[i].rel>>, fs[files[i].id].text>>
          ELSE <<>>) \o Labeled(files, i + 1)

SomeExists(files) == \E i \in DOMAIN files : Exists(files, i)

AllUnderRoot(files) ==
    \A i \in DOMAIN files : Exists(files, i) => files[i].under_root

\* C11: in run_consistency_check a path that does not exist is skipped and is
\* no failure: whenever the list holds at least one existing file the check
\* goes on to the provider, and the text sent holds the labeled text of every
\* existing file, in input order, and nothing for the missing paths.
C11_ExistingFilesChecked ==
    [][\A files \in FileLists :
         SomeExists(files) =>
            \A reply \in Replies :
               IsCheck(files, reply) =>
                  /\ chk'.calls = 1
                  /\ chk'.sent = join(<<"\n", "\n">>, Labeled(files, 1))]_vars

\* C11 holds of the lists whose existing files all lie under the project
\* root: the missing paths are skipped and the existing ones are sent
C11_UnderRootChecked ==
    [][\A files \in FileLists :
         (SomeExists(files) /\ AllUnderRoot(files)) =>
            \A reply \in Replies :
               IsCheck(files, reply) =>
                  /\ chk'.calls = 1
                  /\ chk'.sent = join(<<"\n", "\n">>, Labeled(files, 1))]_vars

\* a check that went on past a missing path
C11_UnderRootWitness ==
    /\ chk.calls = 1
    /\ Len(chk.files) = 2
    /\ ~fs[chk.files[1].id].exists
    /\ fs[chk.files[2].id].exists

\* C12 as stated: every invocation of run_consistency_check calls the
\* provider exactly once; a failed call propagates and no report is created
\* or modified.
C12_Original ==
    [][\A files \in FileLists, reply \in Replies :
         IsCheck(files, reply) =>
            /\ chk'.calls = 1
            /\ ~reply.ok => (chk'.status = "ProviderError" /\ reports' = reports)]_vars

\* C12 (amended): run_consistency_check calls the provider at most once per
\* invocation and never a second time: exactly once when some input file
\* exists and every existing input file lies under the project root, not at
\* all when it fails before the call; when the call fails the failure
\* propagates as the outcome and no report is created or modified.
C12_OneCallNoRetry ==
    [][\A files \in FileLists, reply \in Replies :
         IsCheck(files, reply) =>
            /\ chk'.calls = IF SomeExists(files) /\ AllUnderRoot(files)
                            THEN 1 ELSE 0
            /\ (chk'.calls = 1 /\ ~reply.ok) =>
                  /\ chk'.status = "ProviderError"
                  /\ ~chk'.wrote
                  /\ reports' = reports]_vars

\* a provider failure after an earlier check had written a report
C12_Witness ==
    /\ chk.status = "ProviderError"
    /\ chk.calls = 1
    /\ reports # {}

\* needle occurs in hay as a contiguous piece
Contains(hay, needle) ==
    \E k \in 0..(Len(hay) - Len(needle)) :
       SubSeq(hay, k + 1, k + Len(needle)) = needle

\* the report file the call returned the path of
ReportAt(path, rs) == {r \in rs : r.path = path}

\* after a check the returned path names a non-empty report holding text
Reported(text) ==
    /\ chk'.status = "ok"
    /\ \E r \in ReportAt(chk'.path, reports') :
          /\ r.content # <<>>
          /\ Contains(r.content, text)

C14_ReportsImmutable ==
    [][\A r \in reports : r \in reports']_vars

\* reports written in different seconds are left alone
C14_LaterSecondKeeps ==
    [][\A r \in reports : r.path # ReportName(now_iso(clock)) => r \in reports']_vars

\* the step is the call generate_scene(scene_name, append_to) answered by reply
IsGen(scene_name, append_to, reply) ==
    /\ gen'.scene_name = scene_name
    /\ gen'.append_to = append_to
    /\ gen'.output = reply.text
    /\ GenerateScene(scene_name, append_to, reply)

StartsWith(text, piece) ==
    Len(piece) <= Len(text) /\ SubSeq(text, 1, Len(piece)) = piece

EndsWith(text, piece) ==
    /\ Len(piece) <= Len(text)
    /\ SubSeq(text, Len(text) - Len(piece) + 1, Len(text)) = piece

\* the labeled copy of the output that goes to the append target
LabeledCopy(scene_name, output) ==
    <<"\n", "\n", "# Scene: ">> \o scene_name \o <<"\n", "\n">> \o output \o <<"\n">>

\* C15 as stated: a generate_scene call that returns has written the
\* provider's output to the scene file, and a given append target afterwards
\* is a file, with its directory in place, holding all of its prior content
\* followed by the labeled copy of the output.
C15_Original ==
    [][\A scene_name \in SceneNames, append_to \in AppendTargets,
         reply \in SceneReplies :
         (IsGen(scene_name, append_to, reply) /\ gen'.status = "ok") =>
            /\ sfs'[scene_path(scene_name)].kind = "file"
            /\ Contains(sfs'[scene_path(scene_name)].text, reply.text)
            /\ append_to # <<>> =>
                  /\ sfs'[append_to].kind = "file"
                  /\ sfs'[Parent(append_to)].kind = "dir"
                  /\ StartsWith(sfs'[append_to].text, sfs[append_to].text)
                  /\ EndsWith(sfs'[append_to].text,
                              LabeledCopy(scene_name, reply.text))]_vars

\* C15 (amended): a generate_scene call that returns has written the
\* provider's output and a newline to the scene file, and a given append
\* target other than that scene file afterwards is a file, with its
\* directory in place, holding exactly its prior content followed by the
\* labeled copy of the output; a target that is the scene file itself holds
\* the new scene text followed by the labeled copy, its prior content gone.
C15_SceneWrittenChapterAppended ==
    [][\A scene_name \in SceneNames, append_to \in AppendTargets,
         reply \in SceneReplies :
         (IsGen(scene_name, append_to, reply) /\ gen'.status = "ok") =>
            LET scene == reply.text \o <<"\n">>
                copy == LabeledCopy(scene_name, reply.text)
            IN /\ gen'.path = scene_path(scene_name)
               /\ append_to # scene_path(scene_name) =>
                     sfs'[scene_path(scene_name)] = File(scene)
               /\ (append_to # <<>> /\ append_to # scene_path(scene_name)) =>
                     /\ sfs'[append_to] = File(sfs[append_to].text \o copy)
                     /\ sfs'[Parent(append_to)].kind = "dir"
               /\ append_to = scene_path(scene_name) =>
                     sfs'[append_to] = File(scene \o copy)]_vars

\* a chapter that kept its prior content under the appended copy, after an
\* earlier call had created a target together with its directory
C15_Witness ==
    /\ gen.status = "ok"
    /\ gen.append_to = AChapter
    /\ StartsWith(sfs[AChapter].text, <<"prior">>)
    /\ Len(sfs[AChapter].text) > 1
    /\ sfs[ANote].kind = "file"
    /\ sfs[ANotes].kind = "dir"

\* C16: generate_scene issues exactly one provider call and never retries;
\* when the call fails the failure propagates and no file is written: the
\* scene file and the append target are neither created nor changed.
C16_OneCallNoWriteOnFailure ==
    [][\A scene_name \in SceneNames, append_to \in AppendTargets,
         reply \in SceneReplies :
         IsGen(scene_name, append_to, reply) =>
            /\ gen'.calls = 1
            /\ ~reply.ok => (gen'.status = "ProviderError" /\ sfs' = sfs)]_vars

\* a failed call with an append target, the scene file and the chapter
\* being there from before
C16_Witness ==
    /\ gen.status = "ProviderError"
    /\ gen.append_to = AChapter
    /\ sfs[AChapter].kind = "file"
    /\ sfs[scene_path(gen.scene_name)].kind = "file"

\* the first lines of the summary blocks of a context
BlockHeads(text) ==
    SelectSeq(splitlines(text), LAMBDA line : line # <<>> /\ line[1] = "- ")

\* C17: build_character_context gives one summary block for every requested
\* name found in the store (in any letter case), in the order of the
\* request, and nothing for an unknown name; when no requested name is found
\* the result is the fixed text 'No character details available.'.
C17_ContextBlocks ==
    ctx.pc = "done" =>
       LET found == SelectSeq(ctx.names, LAMBDA n : Stored(data[1], n))
           heads == BlockHeads(ctx.result)
       IN IF found = <<>> THEN ctx.result = NoDetails
          ELSE /\ Len(heads) = Len(found)
               /\ \A i \in DOMAIN heads : SameName(Tail(heads[i]), found[i])

\* a request of an unknown name and of a stored name in another letter case
C17_Witness ==
    /\ ctx.pc = "done"
    /\ ctx.names = <<<<"x">>, <<"b">>>>
    /\ Stored(data[1], <<"b">>)
    /\ Len(BlockHeads(ctx.result)) = 1

\* the "ai" section of the configuration of the call, and its entries
AiOf(config) == DictGet(config, "ai", <<>>)

Named(config) == DictHas(AiOf(config), "default_provider")

Discriminator(config) == LowerStr(Str(DictGet(AiOf(config), "default_provider", None)))

Made == prv.pc # "call" /\ prv.pc # "idle"

\* C18: provider_from_config selects the backend by the configured
\* discriminator, compared without regard to letter case: 'openai' gives
\* the OpenAI backend, 'claude' and 'anthropic' the Anthropic backend,
\* 'local' the local stub, and every other value fails with ProviderError
\* and no backend is constructed.  (The backend given is the one whose
\* constructor runs.)
C18_ClosedVariantSet ==
    (Made /\ Named(prv.config)) =>
       LET d == Discriminator(prv.config)
       IN CASE d = OpenaiTag -> prv.made.backend = "OpenAIProvider"
            [] d \in {ClaudeTag, AnthropicTag} -> prv.made.backend = "ClaudeProvider"
            [] d = LocalTag -> prv.made = Constructed("LocalProvider", None)
            [] OTHER -> prv.made = Refused("none")

\* the OpenAI backend made for a discriminator written in mixed case
C18_Witness ==
    /\ prv.pc = "made"
    /\ DictGet(AiOf(prv.config), "default_provider", None)
          = StrVal(<<"O", "p", "e", "n", "A", "I">>)
    /\ prv.made.status = "ok"
    /\ prv.made.backend = "OpenAIProvider"

\* C19 as stated: on a configuration that names no provider,
\* provider_from_config returns the local stub, which needs no credentials.
C19_Original ==
    (Made /\ ~Named(prv.config)) => prv.made = Constructed("LocalProvider", None)

\* C19 (amended): the local stub is made exactly when the configuration
\* names 'local' (in any letter case); it is made whatever the credentials
\* and packages are, and its generate returns the prompt after a fixed
\* placeholder line.  On a configuration that names no provider the OpenAI
\* backend is chosen, and it fails with ProviderError when no key is
\* configured or set in the environment.
C19_LocalOnlyWhenNamed ==
    Made =>
       /\ prv.made.backend = "LocalProvider"
             <=> (Named(prv.config) /\ Discriminator(prv.config) = LocalTag)
       /\ prv.made.backend = "LocalProvider" => prv.made.status = "ok"
       /\ ~Named(prv.config) =>
             /\ prv.made.backend = "OpenAIProvider"
             /\ (/\ ~ValueTruthy(DictGet(AiOf(prv.config), "openai_api_key", None))
                 /\ ~ValueTruthy(getenv(prv.env, "OPENAI_API_KEY")))
                   => prv.made.status = "ProviderError"
       /\ (prv.pc = "generated" /\ prv.made.backend = "LocalProvider") =>
             prv.out = <<"[LOCAL MODEL PLACEHOLDER]", "\n">> \o prv.prompt

\* the local stub, made without any credential or package, has answered
C19_Witness ==
    /\ prv.pc = "generated"
    /\ prv.prompt # <<>>
    /\ prv.env = <<>>
    /\ prv.packages = {}
    /\ Discriminator(prv.config) = LocalTag

\* the configured value and the environment's value of the key of a remote
\* backend
KeyName(backend) ==
    IF backend = "OpenAIProvider" THEN "openai_api_key" ELSE "anthropic_api_key"
EnvName(backend) ==
    IF backend = "OpenAIProvider" THEN "OPENAI_API_KEY" ELSE "ANTHROPIC_API_KEY"
PackageName(backend) ==
    IF backend = "OpenAIProvider" THEN "openai" ELSE "anthropic"

Remote == {"OpenAIProvider", "ClaudeProvider"}

\* a credential: a text that is not empty and not the unexpanded placeholder
IsCredential(val) ==
    ValueTruthy(val) /\ val \notin {OpenaiPlaceholder, AnthropicPlaceholder}

\* C20: constructing a remote backend takes the credential from the
\* configuration first and from the environment only when the configuration
\* holds none, and fails with ProviderError when neither holds one; with
\* the default configuration and a key set only in the environment, the key
\* handed to the client is the environment's.
C20_CredentialResolution ==
    (Made /\ prv.made.backend \in Remote
          /\ PackageName(prv.made.backend) \in prv.packages) =>
       LET configured == DictGet(AiOf(prv.config), KeyName(prv.made.backend), None)
           environment == getenv(prv.env, EnvName(prv.made.backend))
       IN /\ IsCredential(configured) => prv.made.api_key = configured
          /\ (~IsCredential(configured) /\ IsCredential(environment))
                => prv.made.api_key = environment
          /\ (~IsCredential(configured) /\ ~IsCredential(environment))
                => prv.made.status = "ProviderError"

\* C20 holds when every text that is not empty counts as a credential
C20_ConfiguredTextFirst ==
    (Made /\ prv.made.backend \in Remote
          /\ PackageName(prv.made.backend) \in prv.packages) =>
       LET configured == DictGet(AiOf(prv.config), KeyName(prv.made.backend), None)
           environment == getenv(prv.env, EnvName(prv.made.backend))
       IN /\ ValueTruthy(configured) => prv.made.api_key = configured
          /\ (~ValueTruthy(configured) /\ ValueTruthy(environment))
                => prv.made.api_key = environment
          /\ (~ValueTruthy(configured) /\ ~ValueTruthy(environment))
                => prv.made.status = "ProviderError"

\* a key taken from the environment because the configuration's is empty
C20_EnvWitness ==
    /\ prv.pc = "made"
    /\ prv.made.backend = "ClaudeProvider"
    /\ DictGet(AiOf(prv.config), "anthropic_api_key", None) = StrVal(<<>>)
    /\ prv.made.api_key = StrVal(<<"ant-env">>)

\* generate has returned or raised on a backend that calls a remote service
RemoteGenerated ==
    /\ prv.pc = "generated"
    /\ prv.made.backend \in {"OpenAIProvider", "ClaudeProvider"}

\* C21: generate of a remote backend sends one request and never retries,
\* and every failure of the invocation (the client raising, or a response
\* without a usable text) reaches the caller as ProviderError and as no
\* other exception.
C21_UniformGatewayError ==
    RemoteGenerated =>
       /\ prv.calls = 1
       /\ prv.result \in {"ok", "ProviderError"}
       /\ prv.api.kind # "text" => prv.result = "ProviderError"

\* the part of C21 the code keeps: one request, and an exception raised by
\* the client itself arrives as ProviderError
C21_ClientErrorWrapped ==
    RemoteGenerated =>
       /\ prv.calls = 1
       /\ prv.api.kind = "raises" => prv.result = "ProviderError"

\* the text a successful call had to return: the text of the response, and
\* for the local stub the echo it builds
TextPayload ==
    IF prv.made.backend = "LocalProvider" THEN LocalGenerate(prv.prompt)
    ELSE prv.api.text

\* C22 as stated: a successful generate of any of the three backends
\* returns the text payload without leading and trailing whitespace.
C22_Original ==
    (prv.pc = "generated" /\ prv.result = "ok") => prv.out = strip(TextPayload)

\* C22 (amended): a successful generate of the two remote backends returns
\* the text payload without leading and trailing whitespace; the local stub
\* returns its placeholder line followed by the prompt as it was given.
C22_RemoteTrimmedLocalEcho ==
    (prv.pc = "generated" /\ prv.result = "ok") =>
       IF prv.made.backend = "LocalProvider"
       THEN prv.out = <<"[LOCAL MODEL PLACEHOLDER]", "\n">> \o prv.prompt
       ELSE /\ prv.out = strip(prv.api.text)
            /\ prv.out # <<>> => ~IsSpace(Head(prv.out))
                                 /\ ~IsSpace(prv.out[Len(prv.out)])

\* the OpenAI backend returned a payload that came with whitespace around it
C22_Witness ==
    /\ prv.pc = "generated"
    /\ prv.result = "ok"
    /\ prv.made.backend = "OpenAIProvider"
    /\ prv.api.text = <<" ", "o", "k", "\n">>
    /\ prv.out = <<"o", "k">>

\* the list of the last check holds a file that exists outside the root (a
\* step that leaves the clock alone is a check, or changes nothing)
OutsideGiven ==
    /\ chk.status # "none"
    /\ \E i \in DOMAIN chk.files :
          fs[chk.files[i].id].exists /\ ~chk.files[i].under_root

\* C27: in run_consistency_check an existing input file outside the project
\* root is not skipped: labelling it raises ValueError, so the check fails
\* before the provider is called and writes no report, even when other
\* input files are valid.
C27_OutsideFileFailsCheck ==
    [][(clock' = clock /\ OutsideGiven') =>
          /\ chk'.status = "ValueError"
          /\ chk'.calls = 0
          /\ chk'.sent = <<>>
          /\ ~chk'.wrote
          /\ reports' = reports]_vars

\* a check that failed on a valid file followed by an existing outside one
C27_Witness ==
    /\ chk.status = "ValueError"
    /\ Len(chk.files) = 2
    /\ chk.files[1].under_root /\ fs[chk.files[1].id].exists
    /\ ~chk.files[2].under_root /\ fs[chk.files[2].id].exists
    /\ reports = {}

\* C28: generate_scene writes in a fixed order and without rollback: the
\* scene file is overwritten in full, whatever a file of the same slugified
\* name held (one made under a scene name that differs in letter case or in
\* spaces versus hyphens too), before the append target is touched; when the
\* append step fails the scene file has been written and stays, and nothing
\* else has changed.
C28_SceneWrittenBeforeAppend ==
    [][\A scene_name \in SceneNames, append_to \in AppendTargets,
         reply \in SceneReplies :
         (IsGen(scene_name, append_to, reply) /\ reply.ok) =>
            LET path == scene_path(scene_name)
                scene == File(reply.text \o <<"\n">>)
            IN /\ gen'.status \in {"ok", "OSError"}
               /\ append_to # path => sfs'[path] = scene
               /\ append_to = path =>
                     /\ StartsWith(sfs'[path].text, scene.text)
                     /\ ~Contains(sfs'[path].text, <<"old scene">>)
               /\ gen'.status = "OSError" =>
                     /\ append_to # <<>>
                     /\ sfs' = [sfs EXCEPT ![path] = scene]
                     /\ sfs'[append_to] = sfs[append_to]]_vars

\* a call under the name "A-b" whose append target is a directory: the
\* append step failed, and the file of the scene "a b" holds the new text
C28_Witness ==
    /\ gen.status = "OSError"
    /\ gen.scene_name = <<"A", "-", "b">>
    /\ gen.append_to = AChapters
    /\ sfs[AChapters].kind = "dir"
    /\ sfs[scene_path(<<"a", " ", "b">>)] = File(gen.output \o <<"\n">>)

\* the directories resolve_project_root may look at: start and its
\* ancestors, five directories at most
ExaminedDirs ==
    {SubSeq(rr.start, 1, k) : k \in {m \in 0..Len(rr.start) : Len(rr.start) - m < 5}}

\* C26: resolve_project_root(start) examines start and then its ancestors,
\* at most 5 directories in all, and returns (d, True) for the nearest
\* examined directory d that holds .calliope; when no examined directory
\* holds it (a project root more than 4 levels above start included) it
\* returns (start, False).
C26_NearestWithinFive ==
    rr.pc = "done" =>
       IF ExaminedDirs \cap rr.projects = {}
       THEN rr.result = [root |-> rr.start, found |-> FALSE]
       ELSE /\ rr.result.found
            /\ rr.result.root \in ExaminedDirs \cap rr.projects
            /\ \A d \in ExaminedDirs \cap rr.projects :
                  Len(d) <= Len(rr.result.root)

\* projects five and six levels above start, and none nearer: not found
C26_Witness ==
    /\ rr.pc = "done"
    /\ Len(rr.start) = 6
    /\ rr.projects = {Below(1), Below(0)}
    /\ rr.result = [root |-> rr.start, found |-> FALSE]

IsLoadConfig == cfg'.op = "load_config" /\ LoadConfig

\* C24: the configuration round-trips through the file: load_config right
\* after save_config(c) returns a mapping equal to c, whatever c is, and
\* load_config on a project without a config file writes the default
\* configuration to the file and returns it.
C24_ConfigRoundTrip ==
    [][IsLoadConfig =>
          /\ cfg.op = "save_config" => cfg'.ret = cfg.arg
          /\ ~cfg.files.config.exists =>
                /\ cfg'.files.config = save_config(DEFAULT_CONFIG)
                /\ cfg'.ret = DEFAULT_CONFIG]_vars

\* a configuration whose texts read like a truth value and a number came
\* back as texts
C24_Witness ==
    /\ cfg.op = "load_config"
    /\ DictGet(cfg.ret, "git", <<>>) = <<<<"auto_commit", StrVal(<<"true">>)>>>>
    /\ DictGet(DictGet(cfg.ret, "ai", <<>>), "temperature", None)
          = StrVal(<<"true">>)

IsBootstrap == cfg'.op = "bootstrap_project" /\ BootstrapProject

\* C25: bootstrap_project creates the config, characters and metadata files
\* with default content only if they are absent: a file of the three that
\* exists before the call has the same content after it.
C25_BootstrapKeepsExisting ==
    [][IsBootstrap =>
          \A f \in {"config", "characters", "metadata"} :
             IF cfg.files[f].exists THEN cfg'.files[f] = cfg.files[f]
             ELSE cfg'.files[f] = bootstrap_project(cfg.files)[f]]_vars

\* what bootstrap_project does do: each of the three files holds the
\* default content after the call
C25_BootstrapWritesDefaults ==
    [][IsBootstrap =>
          /\ load_config(cfg'.files.config).ret = DEFAULT_CONFIG
          /\ read_yaml(cfg'.files.characters) = DEFAULT_CHARACTERS
          /\ LoadDict(cfg'.files.metadata.doc) = DEFAULT_METADATA]_vars

\* the caller has just changed the record at address a
IsMutate(a) ==
    /\ obj'.last = [op |-> "mutate", addr |-> a]
    /\ MutateField(a) \/ MutateNested(a)

StoreUntouched ==
    /\ StoreValue(obj'.heap, obj'.store) = StoreValue(obj.heap, obj.store)
    /\ obj'.saved = obj.saved

\* C29: the records get, add and update hand out are independent copies,
\* and add copies its argument: changing a returned record, or the record
\* passed to add, after the call changes neither the records the store
\* holds in memory nor the backing file.
C29_CopiesIndependent ==
    [][\A a \in obj.returned \cup obj.added :
         IsMutate(a) => StoreUntouched]_vars

\* C29 holds of every record that was never handed to update
C29_IndependentUnlessUpdateArgument ==
    [][\A a \in (obj.returned \cup obj.added) \ obj.updated :
         IsMutate(a) => StoreUntouched]_vars

\* the nested list of a returned record was changed, and the store's record
\* holds the list as it was
C29_LemmaWitness ==
    /\ obj.last.op = "mutate"
    /\ obj.last.addr \in obj.returned
    /\ obj.updated = {}
    /\ Len(obj.store) = 1
    /\ DictGet(Written_out(obj.heap, obj.heap[obj.last.addr].d), "personality", None)
          = ListVal(<<<<"x">>, <<"z">>>>)
    /\ DictGet(StoreValue(obj.heap, obj.store)[1], "personality", None)
          = ListVal(<<<<"x">>>>)

IsCleanup(confirm) == cln'.confirm = confirm /\ Cleanup(confirm)

\* the regular files directly inside a directory before the command
FilesIn(d) ==
    {q \in DOMAIN cln.fs : q # <<>> /\ Parent(q) = d /\ cln.fs[q].kind = "file"}

\* a target directory that is there and holds an entry before the command
NonEmpty(d) ==
    /\ cln.fs[d].kind = "dir"
    /\ \E q \in DOMAIN cln.fs : q # <<>> /\ Parent(q) = d /\ cln.fs[q].kind # "none"

\* C30: the cleanup command deletes nothing unless the user confirms: when
\* both target directories are empty or the confirmation is declined, every
\* file under the exports and reports directories is unchanged; after
\* confirmation it removes only the regular files directly inside the
\* non-empty ones of the two directories, and leaves subdirectories and
\* every other project file untouched.
C30_CleanupOnlyOnConfirm ==
    [][\A confirm \in BOOLEAN :
         IsCleanup(confirm) =>
            LET removed == {q \in DOMAIN cln.fs :
                               cln.fs[q].kind # "none" /\ cln'.fs[q] # cln.fs[q]}
            IN /\ (~confirm \/ (~NonEmpty(ExportsDir) /\ ~NonEmpty(ConsistencyDir)))
                     => removed = {}
               /\ removed # {} => cln'.status = "ok"
               /\ cln'.status = "ok" =>
                     /\ removed = FilesIn(ExportsDir) \cup FilesIn(ConsistencyDir)
                     /\ \A q \in removed : cln'.fs[q] = NoEntry
               /\ (confirm /\ cln.fs[ExportsDir].kind # "file"
                    /\ (NonEmpty(ExportsDir) \/ NonEmpty(ConsistencyDir)))
                     => cln'.status = "ok"]_vars

\* after a confirmed cleanup the report is gone, and the directory next to
\* it, the file in that directory and the chapter are still there
C30_Witness ==
    /\ cln.status = "ok"
    /\ cln.confirm
    /\ cln.fs[Append(ConsistencyDir, <<"f">>)] = NoEntry
    /\ cln.fs[ConsistencyDir \o <<<<"sub">>, <<"x">>>>] = File(<<"kept">>)
    /\ cln.fs[ExportsDir \o <<<<"sub">>, <<"x">>>>] = File(<<"kept">>)
    /\ cln.fs[Append(ExportsDir, <<"f">>)] = NoEntry
    /\ cln.fs[AChapter] = File(<<"prior">>)

\* the commands that end with the auto-commit step
Committing == {"character add", "character edit", "generate scene", "template use"}

\* C23: the version-control wrapper is called by the command layer only,
\* and only after a write that returned: a command that does not end well
\* leaves the repository as it was, even when its core function had written
\* a file before it raised; the check command, whose core function writes a
\* report, never calls the wrapper; and when one of the four writing
\* commands ends well with the automatic commit on, the wrapper has been
\* called once, after the write: the repository's head is the work tree
\* the command leaves.
C23_CommitOnlyAfterWrite ==
    [][cli'.n = cli.n + 1 =>
          LET status == cli'.last.status
              cmd == cli'.last.cmd
              called == cli'.repo.calls = cli.repo.calls + 1
                        /\ cli'.repo.head = WorkTree(Project)'
          IN /\ status # "ok" => cli'.repo = cli.repo
             /\ cmd = "check" => cli'.repo = cli.repo
             /\ cli'.repo # cli.repo =>
                   cmd \in Committing /\ status = "ok" /\ called
             /\ (status = "ok" /\ cmd \in Committing /\ auto_commit(cli.config))
                   => called]_vars

\* a generation that wrote the scene and then failed to append it, after a
\* command that committed: the scene is in the work tree, not in the head
C23_Witness ==
    /\ cli.pc = "ready"
    /\ cli.last = [cmd |-> "generate scene", status |-> "OSError"]
    /\ cli.repo.calls = 1
    /\ cli.repo.commits # <<>>
    /\ cli.repo.head # WorkTree(Project)
    /\ auto_commit(cli.config)

====
